---- MODULE Spec2Model ----
(***************************************************************************)
(* A model of the retrieval-augmented question answering service:          *)
(*   - the token-window chunker, core/ingestion.py (DocumentIngestor);     *)
(*   - the query-time pipeline, rag/rag_pipeline.py (RagPipeline):         *)
(*     expand_query, retrieve, the deduplication, rerank with its lazily   *)
(*     loaded model, the choice of the final chunks, answer synthesis in   *)
(*     its complete and its streaming mode;                                *)
(*   - the embedding of a batch, integrations/batch_ingest.py              *)
(*     (_batch_to_vectors) with core/embeddings.py (embed_texts) and its   *)
(*     retries;                                                            *)
(*   - the vector store's upsert, rag/vector_store.py (upsert_vectors);    *)
(*   - the two ingestion drivers, scripts/populate_pinecone.py             *)
(*     (populate_pinecone_db) and integrations/batch_ingest.py             *)
(*     (list_files, ingest_file, main);                                    *)
(*   - the API, app.py (get_current_user and the two endpoints).           *)
(* Each component has its own specification over the shared variables:     *)
(*   SpecChunk         one DocumentIngestor, one call of _pages_to_batch;  *)
(*   SpecRetrieve      interleaved direct calls of RagPipeline.retrieve;   *)
(*   SpecPipeline      one run of answer or answer_stream, stage by stage; *)
(*   SpecRerank        one caller of RagPipeline.rerank;                   *)
(*   SpecSharedRerank  interleaved callers of rerank on one pipeline;      *)
(*   SpecGenerate      interleaved direct calls of generate_answer and     *)
(*                     generate_answer_stream with one backend;            *)
(*   SpecEmbed         one call of _batch_to_vectors;                      *)
(*   SpecUpsert        one call of upsert_vectors;                         *)
(*   SpecPopulate      one run of populate_pinecone_db on a chunk file;    *)
(*   SpecList          one traversal of list_files;                        *)
(*   SpecIngest        one run of main over a listing;                     *)
(*   SpecApp           a request to an endpoint and the run it starts.     *)
(***************************************************************************)
EXTENDS Integers, Sequences, FiniteSets, TLC

VARIABLES
    \* ---- DocumentIngestor (core/ingestion.py) ----
    ing,          \* "none" before __init__, "ready" once constructed
    chunk_size,   \* self.chunk_size
    overlap,      \* self.overlap
    cpc,          \* position in _pages_to_batch: idle, pages, windows, done, raised
    pages,        \* the pages argument: a sequence of token sequences
    doc_id,       \* doc_id = str(uuid.uuid4())
    p_idx,        \* index of the page of the outer loop (1-based, 0 before the first)
    tokens,       \* tokens = self.encoder.encode(page_text)
    i,            \* the inner loop's range value
    chunks,       \* chunks: List[Chunk]
    batch,        \* the returned DocumentBatch ("none" until returned)
    \* ---- RagPipeline (rag/rag_pipeline.py), one entry per run ----
    index,            \* self.vector_store: query text -> ranked records
    qpc,              \* position of the run in the pipeline
    user_query,       \* the user_query argument
    expand_resp,      \* what chat.completions.create gave expand_query
    subqueries,       \* subqueries = await self.expand_query(user_query)
    qerr,             \* the exception the run ended with ("none" if none)
    queries,          \* retrieve's queries argument, as the for loop iterates it
    n_results,        \* retrieve's k, handed to the store as n_results
    qi,               \* number of queries the loop of retrieve has finished
    issued,           \* the query texts the run has sent to vector_store.query
    retrieved_chunks, \* retrieved_chunks of retrieve / retrieved of the pipeline
    unique_chunks,    \* unique_chunks of _get_full_pipeline_response
    \* ---- the reranker of RagPipeline ----
    use_reranker,     \* self.use_reranker
    cross_encoder,    \* self.cross_encoder: NoEncoder, or the number of the load it came from
    scorer,           \* the scores the CrossEncoder model gives: text -> score
    loads,            \* constructions of CrossEncoder started so far
    load_failures,    \* constructions of CrossEncoder that raised
    rerank_arg,       \* rerank's retrieved_chunks argument, per run
    top_n,            \* rerank's top_n, per run
    load_id,          \* the number of the load the run awaits (0 if none)
    scored_with,      \* the model object whose predict the run called
    scores,           \* scores = await asyncio.to_thread(predict, pairs)
    final_chunks,     \* rerank's result / final_chunks of the pipeline
    \* ---- answer synthesis ----
    backend,          \* the text the generation model produces, in fragments
    mode,             \* "answer", "answer_stream", or "none" before synthesis
    gen_request,      \* the arguments of chat.completions.create
    result,           \* what generate_answer returned ("none" until then)
    pending,          \* the fragments the open model stream has not delivered yet
    yielded,          \* the increments the consumer has received
    \* ---- _batch_to_vectors (integrations/batch_ingest.py) ----
    epc,              \* position: idle, slices, embed_wait, done, raised
    e_chunks,         \* batch.chunks
    texts,            \* texts = [c.text for c in batch.chunks]
    vectors,          \* vectors
    e_i,              \* the range value of the sub-batch loop
    embed_calls,      \* the inputs of the calls of embed_texts, in order
    records,          \* the returned list ("none" until returned)
    attempts,         \* attempts the running call of embed_texts has made
    embed_err,        \* the exception of its last failed attempt ("none" if none)
    \* ---- PineconeVectorStore.upsert_vectors (rag/vector_store.py) ----
    index_limit,      \* the most vectors the backend takes in one upsert call
    upsert_args,      \* the lists upsert_vectors was called with, in order
    index_calls,      \* the lists handed to self.index.upsert, in order
    \* ---- populate_pinecone_db (scripts/populate_pinecone.py) ----
    ppc,              \* position: idle, loop, embed_wait, upsert_wait, done, raised
    p_chunks,         \* chunks = json.load(f)
    p_i,              \* the range value of the batch loop
    p_valid,          \* valid_chunks_in_batch
    p_vectors,        \* vectors_to_upsert
    p_embedded,       \* the inputs of the calls of generate_embeddings, in order
    p_log,            \* the records the logging module received
    p_surfaced,       \* the exception populate_pinecone_db raised to its caller
    \* ---- list_files (integrations/batch_ingest.py) ----
    dbx,              \* the Dropbox folders: path -> pages of entries
    lpc,              \* position: idle, queue, page, done
    l_queue,          \* queue
    l_path,           \* path
    l_page,           \* the number of the page result holds
    l_yielded,        \* the entries the generator has yielded, in order
    \* ---- main and ingest_file (integrations/batch_ingest.py) ----
    ipc,              \* position: idle, loop, download, parse, embed, upsert, done
    m_files,          \* the entries list_files yields to main
    m_idx,            \* the number of the entry the loop of main holds
    u_i,              \* the range value of the upsert loop
    i_log,            \* the records LOGGER received
    i_raised,         \* the exception ingest_file raised to main ("none" if none)
    \* ---- the API (app.py), one entry per request ----
    auth_enabled,        \* AUTH_ENABLED
    supabase_configured, \* SUPABASE_URL and SUPABASE_ANON_KEY are set
    pipeline_ready,      \* rag_pipeline_instance is set
    apc,                 \* position: none, auth, auth_wait, handler, responded
    endpoint,            \* "/answer" or "/answer-stream"
    credential,          \* the Authorization header: missing, invalid, valid
    current_user,        \* what the get_current_user dependency returned
    http_status          \* the status the request was answered with (0 if none)

chunkVars == <<ing, chunk_size, overlap, cpc, pages, doc_id, p_idx, tokens, i, chunks, batch>>

queryVars == <<index, qpc, user_query, expand_resp, subqueries, qerr, queries,
               n_results, qi, issued, retrieved_chunks, unique_chunks>>

rerankVars == <<use_reranker, cross_encoder, scorer, loads, load_failures, rerank_arg,
                top_n, load_id, scored_with, scores, final_chunks>>

genVars == <<backend, mode, gen_request, result, pending, yielded>>

embedVars == <<epc, e_chunks, texts, vectors, e_i, embed_calls, records, attempts,
               embed_err>>

upsertVars == <<index_limit, upsert_args, index_calls>>

populateVars == <<ppc, p_chunks, p_i, p_valid, p_vectors, p_embedded, p_log, p_surfaced>>

listVars == <<dbx, lpc, l_queue, l_path, l_page, l_yielded>>

ingestVars == <<ipc, m_files, m_idx, u_i, i_log, i_raised>>

authVars == <<auth_enabled, supabase_configured, pipeline_ready, apc, endpoint, credential,
              current_user, http_status>>

edgeVars == <<upsertVars, populateVars, listVars, ingestVars, authVars>>

coreVars == <<chunkVars, queryVars, rerankVars, genVars>>

vars == <<chunkVars, queryVars, rerankVars, genVars, embedVars, edgeVars>>

-----------------------------------------------------------------------------
(* Bounds of the chunker's inputs *)

\* at most this many pages in a call of _pages_to_batch
MaxPages == 2
\* at most this many tokens in all the pages of a call together
MaxTokens == 4
\* chunk_size ranges over 1..MaxW
MaxW == 3
\* overlap ranges over 0..MaxO
MaxO == 3

\* The defaults of DocumentIngestor.__init__
DefaultChunkSize == 500
DefaultOverlap == 75

-----------------------------------------------------------------------------
(* Tokens and text.  The tokenizer (tiktoken) is a library: a page is given *)
(* as the token sequence encode() yields for it.  A token is abstracted to  *)
(* what str.strip() can see of it: "w" is a token of whitespace only, "x" a *)
(* token with some other character.  The text decode() yields for a window  *)
(* is the window's tokens in order.                                         *)

TokenKinds == {"w", "x"}

Min(a, b) == IF a < b THEN a ELSE b

\* str.strip() on a decoded window: drop the whitespace-only tokens from both ends
RECURSIVE StripLeft(_)
StripLeft(t) == IF t # <<>> /\ Head(t) = "w" THEN StripLeft(Tail(t)) ELSE t

RECURSIVE StripRight(_)
StripRight(t) ==
    IF t # <<>> /\ t[Len(t)] = "w" THEN StripRight(SubSeq(t, 1, Len(t) - 1)) ELSE t

Strip(t) == StripRight(StripLeft(t))

\* Token sequences of length 0..n
TokenSeqs(n) == UNION {[1..k -> TokenKinds] : k \in 0..n}

RECURSIVE SumLen(_)
SumLen(ps) == IF ps = <<>> THEN 0 ELSE Len(Head(ps)) + SumLen(Tail(ps))

\* The pages the format parsers yield: a page is empty ("" of a document
\* without text) or has some character that is not whitespace; whitespace
\* inside it and, for slides and sheets, at its ends is kept
ParsedPages(n) == {t \in TokenSeqs(n) : t = <<>> \/ \E k \in 1..Len(t) : t[k] = "x"}

\* The page lists of the bounded calls: 1..MaxPages pages (the parsers never
\* yield an empty list), MaxTokens tokens in all
SmallPageLists ==
    {ps \in UNION {[1..m -> ParsedPages(MaxTokens)] : m \in 1..MaxPages} :
        SumLen(ps) <= MaxTokens}

\* The scenario of the specification: one page of 1200 tokens
ScenarioPages == << [k \in 1..1200 |-> "x"] >>

\* The configurations a DocumentIngestor is constructed with
Configs ==
    ((1..MaxW) \X (0..MaxO)) \cup {<<DefaultChunkSize, DefaultOverlap>>}

\* The page lists handed to an ingestor of window size W: the default
\* configuration also gets the 1200-token scenario
PageListsFor(W) ==
    IF W = DefaultChunkSize THEN SmallPageLists \cup {ScenarioPages} ELSE SmallPageLists

\* uuid4 is a random choice
DocIds == {"u1", "u2"}

SourceName == "doc.pdf"

-----------------------------------------------------------------------------
(* DocumentIngestor *)

\* range(0, len(tokens), self.chunk_size - self.overlap): the step
RangeStepNoOverlap(W, O) == W

RangeStep(W, O) == W - O

\* range(start, stop, step) still has the value v to yield (step # 0)
InRange(v, stop, step) == IF step > 0 THEN v < stop ELSE v > stop

\* tokens[i : i + self.chunk_size] for 0 <= i < len(tokens), chunk_size >= 1
Window(toks, start, W) == SubSeq(toks, start + 1, Min(start + W, Len(toks)))

\* chunk_id = f"{doc_id}_{p_idx}_{i}"
ChunkIdNoPage(d, p, s) == d \o "_" \o ToString(s)

ChunkId(d, p, s) == d \o "_" \o ToString(p) \o "_" \o ToString(s)

\* location = f"page {p_idx}" if len(pages) > 1 else "full"
Location(p, npages) == IF npages > 1 THEN "page " \o ToString(p) ELSE "full"

\* Chunk(id=..., text=..., source=..., location=..., start_token=i)
MakeChunk(d, p, s, toks, W, npages) ==
    [id |-> ChunkId(d, p, s),
     text |-> Window(toks, s, W),
     source |-> SourceName,
     location |-> Location(p, npages),
     start_token |-> s]

ChunkIdle ==
    /\ cpc = "idle"
    /\ pages = <<>>
    /\ doc_id = "none"
    /\ p_idx = 0
    /\ tokens = <<>>
    /\ i = 0
    /\ chunks = <<>>
    /\ batch = "none"

ChunkInit ==
    /\ ing = "none"
    /\ chunk_size = 0
    /\ overlap = 0
    /\ ChunkIdle

\* DocumentIngestor.__init__(chunk_size, overlap): stores both, checks nothing
Construct(W, O) ==
    /\ ing = "none"
    /\ ing' = "ready"
    /\ chunk_size' = W
    /\ overlap' = O
    /\ UNCHANGED <<cpc, pages, doc_id, p_idx, tokens, i, chunks, batch>>
    /\ UNCHANGED <<queryVars, rerankVars, genVars, embedVars, edgeVars>>

\* _pages_to_batch(pages, source_name): entry, up to the head of the page loop
PagesToBatch(ps, d) ==
    /\ ing = "ready"
    /\ cpc = "idle"
    /\ pages' = ps
    /\ doc_id' = d
    /\ chunks' = <<>>
    /\ p_idx' = 0
    /\ cpc' = "pages"
    /\ UNCHANGED <<ing, chunk_size, overlap, tokens, i, batch>>
    /\ UNCHANGED <<queryVars, rerankVars, genVars, embedVars, edgeVars>>

\* The page loop takes the next page: encode it and build the range of the
\* window loop; range() raises ValueError when the step is zero
NextPage ==
    /\ cpc = "pages"
    /\ p_idx < Len(pages)
    /\ p_idx' = p_idx + 1
    /\ tokens' = pages[p_idx + 1]
    /\ i' = 0
    /\ cpc' = IF RangeStep(chunk_size, overlap) = 0 THEN "raised" ELSE "windows"
    /\ UNCHANGED <<ing, chunk_size, overlap, pages, doc_id, chunks, batch>>
    /\ UNCHANGED <<queryVars, rerankVars, genVars, embedVars, edgeVars>>

\* One iteration of the window loop: slice, decode, append the Chunk
EmitWindow ==
    /\ cpc = "windows"
    /\ InRange(i, Len(tokens), RangeStep(chunk_size, overlap))
    /\ chunks' = Append(chunks,
                        MakeChunk(doc_id, p_idx, i, tokens, chunk_size, Len(pages)))
    /\ i' = i + RangeStep(chunk_size, overlap)
    /\ UNCHANGED <<ing, chunk_size, overlap, cpc, pages, doc_id, p_idx, tokens, batch>>
    /\ UNCHANGED <<queryVars, rerankVars, genVars, embedVars, edgeVars>>

\* The range of the window loop is exhausted: back to the page loop
PageDone ==
    /\ cpc = "windows"
    /\ ~InRange(i, Len(tokens), RangeStep(chunk_size, overlap))
    /\ cpc' = "pages"
    /\ UNCHANGED <<ing, chunk_size, overlap, pages, doc_id, p_idx, tokens, i, chunks, batch>>
    /\ UNCHANGED <<queryVars, rerankVars, genVars, embedVars, edgeVars>>

\* return DocumentBatch(doc_id=doc_id, chunks=chunks)
ReturnBatch ==
    /\ cpc = "pages"
    /\ p_idx = Len(pages)
    /\ cpc' = "done"
    /\ batch' = [doc_id |-> doc_id, chunks |-> chunks]
    /\ UNCHANGED <<ing, chunk_size, overlap, pages, doc_id, p_idx, tokens, i, chunks>>
    /\ UNCHANGED <<queryVars, rerankVars, genVars, embedVars, edgeVars>>

ChunkStep == NextPage \/ EmitWindow \/ PageDone \/ ReturnBatch

-----------------------------------------------------------------------------
(* Bounds and inputs of the query-time pipeline *)

\* a list of subqueries has at most this many entries
MaxQueries == 2
\* retrieve is called directly with k in 1..MaxK
MaxK == 2

\* retrieve's default k, the k of every pipeline run
RetrieveDefaultK == 8

\* Concurrent callers of retrieve
Runs == {1, 2}

\* The run of the pipeline that is followed stage by stage
PipelineRuns == {1}

UserQueries == {"q1", "q2"}

\* The strings a generation model answers an expansion request with
Subs == {"s1", "s2"}

QueryStrings == UserQueries \cup Subs

\* The records of the vector store: two share their text
Corpus ==
    [r1 |-> [text |-> "A", metadata |-> "m1"],
     r2 |-> [text |-> "B", metadata |-> "m2"],
     r3 |-> [text |-> "A", metadata |-> "m3"]]

\* The rankings the store has for a query text
Rankings == { <<Corpus.r1, Corpus.r2, Corpus.r3>>, <<Corpus.r3, Corpus.r2>> }

Indexes == [QueryStrings -> Rankings]

SeqsUpTo(S, n) == UNION {[1..m -> S] : m \in 0..n}

\* json.loads results: a list of strings, an object (iterating it gives its
\* keys), null
JsonValues ==
    {[type |-> "list", items |-> l] : l \in SeqsUpTo(Subs, MaxQueries)}
        \cup {[type |-> "object", items |-> <<s>>] : s \in Subs}
        \cup {[type |-> "null", items |-> <<>>]}

\* message.content: text that is no JSON document, or the text of a JSON value
Bodies == {[form |-> "garbage"]} \cup {[form |-> "json", value |-> v] : v \in JsonValues}

\* The outcomes of chat.completions.create in expand_query: an openai.APIError,
\* a message without content, a message with content
ExpandResponses ==
    {[kind |-> "api_error"], [kind |-> "no_content"]}
        \cup {[kind |-> "content", body |-> b] : b \in Bodies}

NoValue == [type |-> "none", items |-> <<>>]

-----------------------------------------------------------------------------
(* RagPipeline *)

\* json.loads(expanded): the value, or JSONDecodeError
JsonLoads(body) ==
    IF body.form = "json" THEN [ok |-> TRUE, value |-> body.value]
    ELSE [ok |-> FALSE, value |-> NoValue]

ListOf(q) == [type |-> "list", items |-> <<q>>]

\* expand_query from the response on: what it returns or raises.  The except
\* clause catches json.JSONDecodeError and openai.APIError only.
ExpandOutcome(q, resp) ==
    IF resp.kind = "api_error" THEN [raised |-> "none", value |-> ListOf(q)]
    ELSE IF resp.kind = "no_content"
        THEN [raised |-> "AttributeError", value |-> NoValue]
    ELSE LET parsed == JsonLoads(resp.body)
         IN  IF parsed.ok THEN [raised |-> "none", value |-> parsed.value]
             ELSE [raised |-> "none", value |-> ListOf(q)]

\* vector_store.query(q, n_results=k): the documents and metadatas of the k
\* best records for q, best first (results["documents"][0], ["metadatas"][0])
IndexQuery(idx, q, kq) ==
    LET top == SubSeq(idx[q], 1, Min(kq, Len(idx[q])))
    IN  [documents |-> [j \in 1..Len(top) |-> top[j].text],
         metadatas |-> [j \in 1..Len(top) |-> top[j].metadata]]

\* for doc, meta in zip(docs, metadatas): retrieved_chunks.append({...})
ZipTagged(docs, metadatas, q) ==
    [j \in 1..Min(Len(docs), Len(metadatas)) |->
        [text |-> docs[j], metadata |-> metadatas[j], query |-> q]]

HasText(acc, t) == \E j \in 1..Len(acc) : acc[j].text = t

RetrieveAppendUnseen(acc, docs, metadatas, q) ==
    acc \o SelectSeq(ZipTagged(docs, metadatas, q), LAMBDA c : ~HasText(acc, c.text))

RetrieveAppendFront(acc, docs, metadatas, q) == ZipTagged(docs, metadatas, q) \o acc

RetrieveAppend(acc, docs, metadatas, q) == acc \o ZipTagged(docs, metadatas, q)

DictPutAppend(d, c) == Append(d, c)

\* {chunk["text"]: chunk for chunk in retrieved}: a dict keeps a key at the
\* place of its first insertion and takes the value of its last
DictPut(d, c) ==
    IF HasText(d, c.text)
    THEN [j \in 1..Len(d) |-> IF d[j].text = c.text THEN c ELSE d[j]]
    ELSE Append(d, c)

RECURSIVE DictOf(_, _)
DictOf(d, cs) == IF cs = <<>> THEN d ELSE DictOf(DictPut(d, Head(cs)), Tail(cs))

\* unique_chunks = list({...}.values())
DedupByText(cs) == DictOf(<<>>, cs)

QueryIdle ==
    /\ qpc = [r \in Runs |-> "idle"]
    /\ user_query = [r \in Runs |-> "none"]
    /\ expand_resp = [r \in Runs |-> [kind |-> "none"]]
    /\ subqueries = [r \in Runs |-> NoValue]
    /\ qerr = [r \in Runs |-> "none"]
    /\ queries = [r \in Runs |-> <<>>]
    /\ n_results = [r \in Runs |-> 0]
    /\ qi = [r \in Runs |-> 0]
    /\ issued = [r \in Runs |-> <<>>]
    /\ retrieved_chunks = [r \in Runs |-> <<>>]
    /\ unique_chunks = [r \in Runs |-> <<>>]

QueryInit == index \in Indexes /\ QueryIdle

\* _get_full_pipeline_response(user_query) up to the await in expand_query
PipelineCall(r, q) ==
    /\ qpc[r] = "idle"
    /\ qpc' = [qpc EXCEPT ![r] = "expand_wait"]
    /\ user_query' = [user_query EXCEPT ![r] = q]
    /\ UNCHANGED <<index, expand_resp, subqueries, qerr, queries, n_results, qi,
                   issued, retrieved_chunks, unique_chunks>>
    /\ UNCHANGED <<chunkVars, rerankVars, genVars, embedVars, edgeVars>>

\* expand_query from the model's response to its return or raise
ExpandResponse(r, resp) ==
    /\ qpc[r] = "expand_wait"
    /\ LET out == ExpandOutcome(user_query[r], resp)
       IN  /\ expand_resp' = [expand_resp EXCEPT ![r] = resp]
           /\ subqueries' = [subqueries EXCEPT ![r] = out.value]
           /\ qerr' = [qerr EXCEPT ![r] = out.raised]
           /\ qpc' = [qpc EXCEPT ![r] =
                         IF out.raised = "none" THEN "expanded" ELSE "raised"]
    /\ UNCHANGED <<index, user_query, queries, n_results, qi, issued,
                   retrieved_chunks, unique_chunks>>
    /\ UNCHANGED <<chunkVars, rerankVars, genVars, embedVars, edgeVars>>

\* retrieved = await self.retrieve(subqueries): entry, with the default k;
\* for q in queries raises TypeError on a value that is not iterable
PipelineRetrieve(r) ==
    /\ qpc[r] = "expanded"
    /\ IF subqueries[r].type = "null"
       THEN /\ qpc' = [qpc EXCEPT ![r] = "raised"]
            /\ qerr' = [qerr EXCEPT ![r] = "TypeError"]
            /\ UNCHANGED <<queries, n_results, qi, retrieved_chunks>>
       ELSE /\ qpc' = [qpc EXCEPT ![r] = "retrieve"]
            /\ queries' = [queries EXCEPT ![r] = subqueries[r].items]
            /\ n_results' = [n_results EXCEPT ![r] = RetrieveDefaultK]
            /\ qi' = [qi EXCEPT ![r] = 0]
            /\ retrieved_chunks' = [retrieved_chunks EXCEPT ![r] = <<>>]
            /\ UNCHANGED qerr
    /\ UNCHANGED <<index, user_query, expand_resp, subqueries, issued, unique_chunks>>
    /\ UNCHANGED <<chunkVars, rerankVars, genVars, embedVars, edgeVars>>

\* retrieve(queries, k) called on its own: entry
RetrieveCall(r, qs, kq) ==
    /\ qpc[r] = "idle"
    /\ qpc' = [qpc EXCEPT ![r] = "retrieve"]
    /\ queries' = [queries EXCEPT ![r] = qs]
    /\ n_results' = [n_results EXCEPT ![r] = kq]
    /\ qi' = [qi EXCEPT ![r] = 0]
    /\ retrieved_chunks' = [retrieved_chunks EXCEPT ![r] = <<>>]
    /\ UNCHANGED <<index, user_query, expand_resp, subqueries, qerr, issued, unique_chunks>>
    /\ UNCHANGED <<chunkVars, rerankVars, genVars, embedVars, edgeVars>>

\* The loop of retrieve takes the next query and awaits the store's query thread
QueryIssue(r) ==
    /\ qpc[r] = "retrieve"
    /\ qi[r] < Len(queries[r])
    /\ issued' = [issued EXCEPT ![r] = Append(@, queries[r][qi[r] + 1])]
    /\ qpc' = [qpc EXCEPT ![r] = "query_wait"]
    /\ UNCHANGED <<index, user_query, expand_resp, subqueries, qerr, queries,
                   n_results, qi, retrieved_chunks, unique_chunks>>
    /\ UNCHANGED <<chunkVars, rerankVars, genVars, embedVars, edgeVars>>

\* The store's answer arrives: the loop body appends its tagged items
QueryComplete(r) ==
    /\ qpc[r] = "query_wait"
    /\ LET q == queries[r][qi[r] + 1]
           results == IndexQuery(index, q, n_results[r])
       IN  retrieved_chunks' = [retrieved_chunks EXCEPT ![r] =
               RetrieveAppend(@, results.documents, results.metadatas, q)]
    /\ qi' = [qi EXCEPT ![r] = @ + 1]
    /\ qpc' = [qpc EXCEPT ![r] = "retrieve"]
    /\ UNCHANGED <<index, user_query, expand_resp, subqueries, qerr, queries,
                   n_results, issued, unique_chunks>>
    /\ UNCHANGED <<chunkVars, rerankVars, genVars, embedVars, edgeVars>>

\* return retrieved_chunks
RetrieveReturn(r) ==
    /\ qpc[r] = "retrieve"
    /\ qi[r] = Len(queries[r])
    /\ qpc' = [qpc EXCEPT ![r] = "retrieved"]
    /\ UNCHANGED <<index, user_query, expand_resp, subqueries, qerr, queries,
                   n_results, qi, issued, retrieved_chunks, unique_chunks>>
    /\ UNCHANGED <<chunkVars, rerankVars, genVars, embedVars, edgeVars>>

\* unique_chunks = list({chunk["text"]: chunk for chunk in retrieved}.values())
Dedup(r) ==
    /\ qpc[r] = "retrieved"
    /\ unique_chunks' = [unique_chunks EXCEPT ![r] = DedupByText(retrieved_chunks[r])]
    /\ qpc' = [qpc EXCEPT ![r] = "deduped"]
    /\ UNCHANGED <<index, user_query, expand_resp, subqueries, qerr, queries,
                   n_results, qi, issued, retrieved_chunks>>
    /\ UNCHANGED <<chunkVars, rerankVars, genVars, embedVars, edgeVars>>

-----------------------------------------------------------------------------
(* Bounds and inputs of the reranker *)

\* rerank is called directly with lists of at most this many chunks
MaxRerank == 3
\* ... and with top_n in 0..MaxTopN
MaxTopN == 2
\* the model's scores range over 0..MaxScore
MaxScore == 1

\* TOP_N_FINAL_CHUNKS of _get_full_pipeline_response
TOP_N_FINAL_CHUNKS == 6

\* A ranking with one record more than the pipeline keeps, all texts different
LongRanking ==
    [j \in 1..(TOP_N_FINAL_CHUNKS + 1) |->
        [text |-> "T" \o ToString(j), metadata |-> "n" \o ToString(j)]]

\* The stores of the pipeline runs: those of retrieve's callers, and one that
\* answers every query with the long ranking
PipelineIndexes == Indexes \cup {[q \in QueryStrings |-> LongRanking]}

Texts == {"A", "B"} \cup {LongRanking[j].text : j \in 1..Len(LongRanking)}

\* The score functions of the CrossEncoder models: the texts of the long
\* ranking score 1 and 0 in turn, the others anything
Scorers ==
    {f \in [Texts -> 0..MaxScore] :
        \A j \in 1..Len(LongRanking) : f[LongRanking[j].text] = j % 2}

\* The items retrieve makes of the records of Corpus
CorpusItems ==
    {[text |-> c.text, metadata |-> c.metadata, query |-> "s1"] :
        c \in {Corpus.r1, Corpus.r2, Corpus.r3}}

\* The lists rerank is called with directly
RerankLists == SeqsUpTo(CorpusItems, MaxRerank)

\* The lists of the concurrent callers of rerank
LoadLists == { <<>>, <<[text |-> "B", metadata |-> "m2", query |-> "s1"],
                       [text |-> "A", metadata |-> "m1", query |-> "s1"]>> }

-----------------------------------------------------------------------------
(* RagPipeline.rerank *)

\* self.cross_encoder = None: the loads are numbered from 1
NoEncoder == 0

\* A loader that does not look for a model it already holds
NeedsLoadAlways(enabled, encoder) == enabled

\* _load_reranker: if self.use_reranker and self.cross_encoder is None
NeedsLoad(enabled, encoder) == enabled /\ encoder = NoEncoder

\* pairs = [(user_query, chunk["text"]) for chunk in retrieved_chunks];
\* self.cross_encoder.predict(pairs): one score per pair, in order
Predict(f, q, cs) == [j \in 1..Len(cs) |-> f[cs[j].text]]

\* scored_chunks = list(zip(retrieved_chunks, scores))
ScoredChunks(cs, sc) ==
    [j \in 1..Min(Len(cs), Len(sc)) |-> [chunk |-> cs[j], score |-> sc[j]]]

InsertBeforeTies(s, p) ==
    LET k == Cardinality({j \in 1..Len(s) : s[j].score > p.score})
    IN  SubSeq(s, 1, k) \o <<p>> \o SubSeq(s, k + 1, Len(s))

\* sorted(..., key=lambda x: x[1], reverse=True) is stable: an item goes
\* behind the items before it in the input whose score is not below its own
InsertByScore(s, p) ==
    LET k == Cardinality({j \in 1..Len(s) : s[j].score >= p.score})
    IN  SubSeq(s, 1, k) \o <<p>> \o SubSeq(s, k + 1, Len(s))

RECURSIVE SortInto(_, _)
SortInto(s, ps) ==
    IF ps = <<>> THEN s ELSE SortInto(InsertByScore(s, Head(ps)), Tail(ps))

\* sorted(scored_chunks, key=lambda x: x[1], reverse=True)
SortedReverse(ps) == SortInto(<<>>, ps)

LastN(lst, n) == SubSeq(lst, Len(lst) - Min(n, Len(lst)) + 1, Len(lst))

\* lst[:n] for n >= 0
FirstN(lst, n) == SubSeq(lst, 1, Min(n, Len(lst)))

\* reranked = sorted(...)[:top_n]; return [chunk for chunk, score in reranked]
Reranked(cs, sc, n) ==
    LET top == FirstN(SortedReverse(ScoredChunks(cs, sc)), n)
    IN  [j \in 1..Len(top) |-> top[j].chunk]

RerankIdle ==
    /\ cross_encoder = NoEncoder
    /\ loads = 0
    /\ load_failures = 0
    /\ rerank_arg = [r \in Runs |-> <<>>]
    /\ top_n = [r \in Runs |-> 0]
    /\ load_id = [r \in Runs |-> 0]
    /\ scored_with = [r \in Runs |-> NoEncoder]
    /\ scores = [r \in Runs |-> <<>>]
    /\ final_chunks = [r \in Runs |-> <<>>]

\* The variables of a run that rerank and answer synthesis leave alone
retrieveLocals == <<index, expand_resp, subqueries, queries, n_results, qi, issued,
                    retrieved_chunks, unique_chunks>>

\* rerank's body from its entry to its first suspension: an empty list is
\* returned at once; _load_reranker starts a load if none is held; else line
\* 92 takes self.cross_encoder.predict (AttributeError on None) and awaits
\* the scoring thread
RerankEnter(r, cs, n) ==
    /\ rerank_arg' = [rerank_arg EXCEPT ![r] = cs]
    /\ top_n' = [top_n EXCEPT ![r] = n]
    /\ scores' = [scores EXCEPT ![r] = <<>>]
    /\ IF cs = <<>>
       THEN /\ final_chunks' = [final_chunks EXCEPT ![r] = <<>>]
            /\ qpc' = [qpc EXCEPT ![r] = "reranked"]
            /\ UNCHANGED <<loads, load_id, scored_with, qerr>>
       ELSE IF NeedsLoad(use_reranker, cross_encoder)
       THEN /\ loads' = loads + 1
            /\ load_id' = [load_id EXCEPT ![r] = loads + 1]
            /\ qpc' = [qpc EXCEPT ![r] = "load_wait"]
            /\ UNCHANGED <<final_chunks, scored_with, qerr>>
       ELSE IF cross_encoder = NoEncoder
       THEN /\ qpc' = [qpc EXCEPT ![r] = "raised"]
            /\ qerr' = [qerr EXCEPT ![r] = "AttributeError"]
            /\ UNCHANGED <<final_chunks, loads, load_id, scored_with>>
       ELSE /\ scored_with' = [scored_with EXCEPT ![r] = cross_encoder]
            /\ qpc' = [qpc EXCEPT ![r] = "predict_wait"]
            /\ UNCHANGED <<final_chunks, loads, load_id, qerr>>
    /\ UNCHANGED <<use_reranker, cross_encoder, scorer, load_failures>>
    /\ UNCHANGED <<retrieveLocals, chunkVars, genVars, embedVars, edgeVars>>

\* rerank(user_query, retrieved_chunks, top_n) called on its own
RerankCall(r, q, cs, n) ==
    /\ qpc[r] = "idle"
    /\ user_query' = [user_query EXCEPT ![r] = q]
    /\ RerankEnter(r, cs, n)

\* The constructor thread returns: self.cross_encoder = CrossEncoder(...);
\* rerank goes on to line 92 and awaits the scoring thread
LoadDone(r) ==
    /\ qpc[r] = "load_wait"
    /\ cross_encoder' = load_id[r]
    /\ scored_with' = [scored_with EXCEPT ![r] = load_id[r]]
    /\ qpc' = [qpc EXCEPT ![r] = "predict_wait"]
    /\ UNCHANGED <<use_reranker, scorer, loads, load_failures, rerank_arg, top_n,
                   load_id, scores, final_chunks>>
    /\ UNCHANGED <<user_query, qerr, retrieveLocals, chunkVars, genVars, embedVars, edgeVars>>

\* The constructor raises (the model cannot be fetched or read): the
\* exception leaves _load_reranker and rerank; self.cross_encoder stays None
LoadFail(r) ==
    /\ qpc[r] = "load_wait"
    /\ load_failures' = load_failures + 1
    /\ qpc' = [qpc EXCEPT ![r] = "raised"]
    /\ qerr' = [qerr EXCEPT ![r] = "LoadError"]
    /\ UNCHANGED <<use_reranker, cross_encoder, scorer, loads, rerank_arg, top_n,
                   load_id, scored_with, scores, final_chunks>>
    /\ UNCHANGED <<user_query, retrieveLocals, chunkVars, genVars, embedVars, edgeVars>>

\* The scoring thread returns: zip, sort, cut, return
PredictDone(r) ==
    /\ qpc[r] = "predict_wait"
    /\ LET sc == Predict(scorer, user_query[r], rerank_arg[r])
       IN  /\ scores' = [scores EXCEPT ![r] = sc]
           /\ final_chunks' = [final_chunks EXCEPT ![r] =
                                  Reranked(rerank_arg[r], sc, top_n[r])]
    /\ qpc' = [qpc EXCEPT ![r] = "reranked"]
    /\ UNCHANGED <<use_reranker, cross_encoder, scorer, loads, load_failures,
                   rerank_arg, top_n, load_id, scored_with>>
    /\ UNCHANGED <<user_query, qerr, retrieveLocals, chunkVars, genVars, embedVars, edgeVars>>

\* Lines 132-143 of _get_full_pipeline_response: rerank the unique chunks
\* (up to rerank's first suspension), or keep the first TOP_N_FINAL_CHUNKS
PipelineSelect(r) ==
    /\ qpc[r] = "deduped"
    /\ IF use_reranker
       THEN /\ RerankEnter(r, unique_chunks[r], TOP_N_FINAL_CHUNKS)
            /\ UNCHANGED user_query
       ELSE /\ final_chunks' = [final_chunks EXCEPT ![r] =
                                   FirstN(unique_chunks[r], TOP_N_FINAL_CHUNKS)]
            /\ qpc' = [qpc EXCEPT ![r] = "selected"]
            /\ UNCHANGED <<use_reranker, cross_encoder, scorer, loads, load_failures,
                           rerank_arg, top_n, load_id, scored_with, scores>>
            /\ UNCHANGED <<user_query, qerr, retrieveLocals, chunkVars, genVars,
                           embedVars, edgeVars>>

\* final_chunks = await self.rerank(...); return final_chunks
RerankReturn(r) ==
    /\ qpc[r] = "reranked"
    /\ qpc' = [qpc EXCEPT ![r] = "selected"]
    /\ UNCHANGED <<user_query, qerr, retrieveLocals, rerankVars, chunkVars, genVars,
                   embedVars, edgeVars>>

-----------------------------------------------------------------------------
(* Bounds and inputs of answer synthesis *)

\* the generation model produces its text in at most this many fragments
MaxDeltas == 3

\* A fragment (delta.content) is empty, whitespace, or something else
Fragments == { <<>>, <<"w">>, <<"x">> }

\* The texts of the generation model, as the fragments a stream delivers
Completions == SeqsUpTo(Fragments, MaxDeltas)

\* The text the model has for the pipeline runs
PipelineCompletion == << <<"x">>, <<"w">> >>

\* The context lists generate_answer(_stream) is called with directly
ContextLists ==
    { <<[text |-> "B", metadata |-> "m2", query |-> "s1"],
        [text |-> "A", metadata |-> "m1", query |-> "s2"]>> }

-----------------------------------------------------------------------------
(* RagPipeline.generate_answer, generate_answer_stream, answer, answer_stream *)

RECURSIVE Concat(_)
Concat(fs) == IF fs = <<>> THEN <<>> ELSE Head(fs) \o Concat(Tail(fs))

\* self.prompts["answer_generation"]["system_prompt"]
SystemPrompt == "answer_generation.system_prompt"

\* format_chunk_for_context of generate_answer: a label made of the
\* metadata's source fields, then the text
FormatChunkForContext(c) == [label |-> c.metadata, text |-> c.text]

\* context_block = "\n\n".join([format_chunk_for_context(c) for c in context_chunks])
ContextBlock(cs) == [j \in 1..Len(cs) |-> FormatChunkForContext(cs[j])]

\* user_prompt = template.format(query_text=user_query, context=context_block)
UserPrompt(q, cs) ==
    [template |-> "answer_generation.user_prompt_template",
     query_text |-> q,
     context |-> ContextBlock(cs)]

\* The arguments of create in generate_answer
AnswerRequest(q, cs) ==
    [model |-> "gpt-4o", system |-> SystemPrompt, user |-> UserPrompt(q, cs),
     stream |-> FALSE]

StreamFormatUnlabelled(c) == [label |-> "", text |-> c.text]

\* format_chunk_for_context of generate_answer_stream
StreamFormatChunkForContext(c) == [label |-> c.metadata, text |-> c.text]

StreamContextBlock(cs) == [j \in 1..Len(cs) |-> StreamFormatChunkForContext(cs[j])]

StreamUserPrompt(q, cs) ==
    [template |-> "answer_generation.user_prompt_template",
     query_text |-> q,
     context |-> StreamContextBlock(cs)]

\* The arguments of create in generate_answer_stream
StreamRequest(q, cs) ==
    [model |-> "gpt-4o", system |-> SystemPrompt, user |-> StreamUserPrompt(q, cs),
     stream |-> TRUE]

\* return response.choices[0].message.content.strip()
AnswerContent(fs) == Strip(Concat(fs))

\* if content := chunk.choices[0].delta.content: yield content
YieldDelta(out, delta) == IF delta # <<>> THEN Append(out, delta) ELSE out

StreamErrorSwallowed == "stream_done"

\* async for chunk in stream has no handler around it: an error of the
\* stream leaves the generator as an exception
StreamErrorOutcome == "raised"

NoRequest == [model |-> "none"]

GenIdle ==
    /\ mode = [r \in Runs |-> "none"]
    /\ gen_request = [r \in Runs |-> NoRequest]
    /\ result = [r \in Runs |-> "none"]
    /\ pending = [r \in Runs |-> <<>>]
    /\ yielded = [r \in Runs |-> <<>>]

\* generate_answer(user_query, context_chunks) up to the await of create
AnswerEnter(r, q, cs) ==
    /\ mode' = [mode EXCEPT ![r] = "answer"]
    /\ gen_request' = [gen_request EXCEPT ![r] = AnswerRequest(q, cs)]
    /\ qpc' = [qpc EXCEPT ![r] = "gen_wait"]
    /\ UNCHANGED <<backend, result, pending, yielded>>
    /\ UNCHANGED <<qerr, retrieveLocals, chunkVars, embedVars, edgeVars>>

\* generate_answer_stream(user_query, context_chunks) up to the await of create
StreamEnter(r, q, cs) ==
    /\ mode' = [mode EXCEPT ![r] = "answer_stream"]
    /\ gen_request' = [gen_request EXCEPT ![r] = StreamRequest(q, cs)]
    /\ qpc' = [qpc EXCEPT ![r] = "stream_wait"]
    /\ UNCHANGED <<backend, result, pending, yielded>>
    /\ UNCHANGED <<qerr, retrieveLocals, chunkVars, embedVars, edgeVars>>

\* generate_answer / generate_answer_stream called on their own
GenerateAnswerCall(r, q, cs) ==
    /\ qpc[r] = "idle"
    /\ user_query' = [user_query EXCEPT ![r] = q]
    /\ final_chunks' = [final_chunks EXCEPT ![r] = cs]
    /\ AnswerEnter(r, q, cs)
    /\ UNCHANGED <<use_reranker, cross_encoder, scorer, loads, load_failures,
                   rerank_arg, top_n, load_id, scored_with, scores>>

GenerateStreamCall(r, q, cs) ==
    /\ qpc[r] = "idle"
    /\ user_query' = [user_query EXCEPT ![r] = q]
    /\ final_chunks' = [final_chunks EXCEPT ![r] = cs]
    /\ StreamEnter(r, q, cs)
    /\ UNCHANGED <<use_reranker, cross_encoder, scorer, loads, load_failures,
                   rerank_arg, top_n, load_id, scored_with, scores>>

\* answer: return await self.generate_answer(user_query, context_chunks)
Answer(r) ==
    /\ qpc[r] = "selected"
    /\ AnswerEnter(r, user_query[r], final_chunks[r])
    /\ UNCHANGED <<user_query, rerankVars>>

\* answer_stream: async for token in self.generate_answer_stream(...)
AnswerStream(r) ==
    /\ qpc[r] = "selected"
    /\ StreamEnter(r, user_query[r], final_chunks[r])
    /\ UNCHANGED <<user_query, rerankVars>>

\* create(stream=False) returns: the stripped content is the answer
GenerateResponse(r) ==
    /\ qpc[r] = "gen_wait"
    /\ result' = [result EXCEPT ![r] = AnswerContent(backend)]
    /\ qpc' = [qpc EXCEPT ![r] = "answered"]
    /\ UNCHANGED <<backend, mode, gen_request, pending, yielded>>
    /\ UNCHANGED <<user_query, qerr, retrieveLocals, rerankVars, chunkVars, embedVars, edgeVars>>

\* create raises (openai.APIError), with stream=False or stream=True
GenerateFail(r) ==
    /\ qpc[r] \in {"gen_wait", "stream_wait"}
    /\ qpc' = [qpc EXCEPT ![r] = "raised"]
    /\ qerr' = [qerr EXCEPT ![r] = "APIError"]
    /\ UNCHANGED <<user_query, retrieveLocals, rerankVars, genVars, chunkVars, embedVars, edgeVars>>

\* create(stream=True) returns the open stream
StreamOpen(r) ==
    /\ qpc[r] = "stream_wait"
    /\ pending' = [pending EXCEPT ![r] = backend]
    /\ qpc' = [qpc EXCEPT ![r] = "streaming"]
    /\ UNCHANGED <<backend, mode, gen_request, result, yielded>>
    /\ UNCHANGED <<user_query, qerr, retrieveLocals, rerankVars, chunkVars, embedVars, edgeVars>>

\* The consumer asks for the next increment: the loop takes the stream's
\* next fragment and yields it unless it is empty
StreamDelta(r) ==
    /\ qpc[r] = "streaming"
    /\ pending[r] # <<>>
    /\ yielded' = [yielded EXCEPT ![r] = YieldDelta(@, Head(pending[r]))]
    /\ pending' = [pending EXCEPT ![r] = Tail(@)]
    /\ UNCHANGED <<backend, mode, gen_request, result>>
    /\ UNCHANGED <<qpc, user_query, qerr, retrieveLocals, rerankVars, chunkVars,
                   embedVars, edgeVars>>

\* The stream is exhausted: the generator ends
StreamEnd(r) ==
    /\ qpc[r] = "streaming"
    /\ pending[r] = <<>>
    /\ qpc' = [qpc EXCEPT ![r] = "stream_done"]
    /\ UNCHANGED <<user_query, qerr, retrieveLocals, rerankVars, genVars, chunkVars,
                   embedVars, edgeVars>>

\* The stream raises while the loop awaits its next fragment
StreamFail(r) ==
    /\ qpc[r] = "streaming"
    /\ qpc' = [qpc EXCEPT ![r] = StreamErrorOutcome]
    /\ qerr' = [qerr EXCEPT ![r] = "APIError"]
    /\ UNCHANGED <<user_query, retrieveLocals, rerankVars, genVars, chunkVars, embedVars, edgeVars>>

\* The consumer stops asking: the generator stays suspended at its yield
ConsumerStop(r) ==
    /\ qpc[r] = "streaming"
    /\ qpc' = [qpc EXCEPT ![r] = "cancelled"]
    /\ UNCHANGED <<user_query, qerr, retrieveLocals, rerankVars, genVars, chunkVars,
                   embedVars, edgeVars>>

-----------------------------------------------------------------------------
(* Bounds and inputs of the embedding of a batch *)

\* a batch has at most this many chunks
MaxChunks == 165

\* EMB_BATCH of integrations/batch_ingest.py
EMB_BATCH == 80

\* The j-th chunk of a batch of document d: its own id and text
BatchChunk(d, j) ==
    [id |-> ChunkId(d, 1, j),
     text |-> "t" \o ToString(j),
     source |-> SourceName,
     location |-> "full",
     start_token |-> j]

\* A DocumentBatch of n chunks
BatchOf(d, n) == [doc_id |-> d, chunks |-> [j \in 1..n |-> BatchChunk(d, j - 1)]]

-----------------------------------------------------------------------------
(* Embedder.embed_texts and _batch_to_vectors *)

\* The vector the embedding model has for a text
EmbeddingOf(t) == <<"embedding", t>>

\* client.embeddings.create(model=..., input=texts): resp.data has one entry
\* per input, in input order
EmbeddingsCreate(input) ==
    [j \in 1..Len(input) |-> [index |-> j - 1, embedding |-> EmbeddingOf(input[j])]]

\* embed_texts: return [d.embedding for d in resp.data]
EmbedTexts(input) ==
    LET data == EmbeddingsCreate(input)
    IN  [j \in 1..Len(data) |-> data[j].embedding]

TextsSliceShort(ts, start) == SubSeq(ts, start + 1, Min(start + EMB_BATCH - 1, Len(ts)))

\* texts[i : i + EMB_BATCH]
TextsSlice(ts, start) == SubSeq(ts, start + 1, Min(start + EMB_BATCH, Len(ts)))

\* The list _batch_to_vectors returns: zip(batch.chunks, vectors)
ToVectors(d, cs, vs) ==
    [j \in 1..Min(Len(cs), Len(vs)) |->
        [id |-> cs[j].id,
         values |-> vs[j],
         metadata |-> [text |-> cs[j].text,
                       source |-> cs[j].source,
                       location |-> cs[j].location,
                       doc_id |-> d]]]

\* max_tries of the backoff decorator of embed_texts
MAX_TRIES == 5

\* What an attempt of client.embeddings.create can raise: rate limiting
\* (429), a server error (5xx), a rejected request (400), and an exception
\* that is no error of the API
EmbedErrors == {"RateLimitError", "InternalServerError", "BadRequestError", "TypeError"}

\* The failures that another attempt can cure
TransientErrors == {"RateLimitError", "InternalServerError"}

\* isinstance(e, openai.APIError): APIError is the base class of the errors
\* the API answers with, RateLimitError and BadRequestError included
IsAPIError(kind) == kind \in {"RateLimitError", "InternalServerError", "BadRequestError"}

\* backoff.on_exception(backoff.expo, (openai.RateLimitError, openai.APIError), ...)
Retried(kind) == kind = "RateLimitError" \/ IsAPIError(kind)

\* The decorator re-raises: the exception is not in its tuple, or the
\* attempt was the max_tries-th
GivesUp(kind, tries) == ~Retried(kind) \/ tries >= MAX_TRIES

EmbedIdle ==
    /\ epc = "idle"
    /\ e_chunks = <<>>
    /\ texts = <<>>
    /\ vectors = <<>>
    /\ e_i = 0
    /\ embed_calls = <<>>
    /\ records = "none"
    /\ attempts = 0
    /\ embed_err = "none"

\* _batch_to_vectors(batch, embedder): texts, vectors = [...], []
BatchToVectors(b) ==
    /\ epc = "idle"
    /\ doc_id' = b.doc_id
    /\ e_chunks' = b.chunks
    /\ texts' = [j \in 1..Len(b.chunks) |-> b.chunks[j].text]
    /\ vectors' = <<>>
    /\ e_i' = 0
    /\ epc' = "slices"
    /\ UNCHANGED <<embed_calls, records, attempts, embed_err>>
    /\ UNCHANGED <<ing, chunk_size, overlap, cpc, pages, p_idx, tokens, i, chunks, batch>>
    /\ UNCHANGED <<queryVars, rerankVars, genVars, edgeVars>>

\* for i in range(0, len(texts), EMB_BATCH): call embed_texts on the slice;
\* the decorator makes the first attempt
EmbedCall ==
    /\ epc = "slices"
    /\ InRange(e_i, Len(texts), EMB_BATCH)
    /\ embed_calls' = Append(embed_calls, TextsSlice(texts, e_i))
    /\ attempts' = 1
    /\ embed_err' = "none"
    /\ epc' = "embed_wait"
    /\ UNCHANGED <<e_chunks, texts, vectors, e_i, records>>
    /\ UNCHANGED <<chunkVars, queryVars, rerankVars, genVars, edgeVars>>

\* An attempt succeeds: embed_texts returns; vectors.extend(...), next range
\* value
EmbedReturn ==
    /\ epc = "embed_wait"
    /\ vectors' = vectors \o EmbedTexts(embed_calls[Len(embed_calls)])
    /\ e_i' = e_i + EMB_BATCH
    /\ epc' = "slices"
    /\ UNCHANGED <<e_chunks, texts, embed_calls, records, attempts, embed_err>>
    /\ UNCHANGED <<chunkVars, queryVars, rerankVars, genVars, edgeVars>>

\* An attempt raises an exception the decorator retries, with tries left: it
\* waits and calls again
EmbedRetry(kind) ==
    /\ epc = "embed_wait"
    /\ GivesUp(kind, attempts) = FALSE
    /\ attempts' = attempts + 1
    /\ embed_err' = kind
    /\ UNCHANGED <<epc, e_chunks, texts, vectors, e_i, embed_calls, records>>
    /\ UNCHANGED <<chunkVars, queryVars, rerankVars, genVars, edgeVars>>

\* An attempt raises and the decorator gives up (the tries are used up, or
\* the exception is none it retries): embed_texts raises it
EmbedRaise(kind) ==
    /\ epc = "embed_wait"
    /\ GivesUp(kind, attempts)
    /\ embed_err' = kind
    /\ epc' = "raised"
    /\ UNCHANGED <<e_chunks, texts, vectors, e_i, embed_calls, records, attempts>>
    /\ UNCHANGED <<chunkVars, queryVars, rerankVars, genVars, edgeVars>>

\* The range is exhausted: return the zipped records
VectorsReturn ==
    /\ epc = "slices"
    /\ ~InRange(e_i, Len(texts), EMB_BATCH)
    /\ records' = ToVectors(doc_id, e_chunks, vectors)
    /\ epc' = "done"
    /\ UNCHANGED <<e_chunks, texts, vectors, e_i, embed_calls, attempts, embed_err>>
    /\ UNCHANGED <<chunkVars, queryVars, rerankVars, genVars, edgeVars>>

-----------------------------------------------------------------------------
(* PineconeVectorStore.upsert_vectors *)

\* The upsert loop of ingest_file hands over UP_BATCH vectors at a time
UP_BATCH == 80

\* The batch loop of populate_pinecone_db takes batch_size chunks at a time
batch_size == 100

\* "80 vectors ~ 1.2 MB < Pinecone 2 MB limit": 15 kB a vector, 2000 kB a
\* call of the backend
VectorKB == 15

PayloadLimitKB == 2000

\* The most vectors one call of the backend takes
IndexLimit == PayloadLimitKB \div VectorKB

MaxUpsert == 134

\* The calls of self.index.upsert one call of upsert_vectors makes:
\* if not vectors: return; self.index.upsert(vectors=vectors)
IndexUpserts(vs) == IF vs = <<>> THEN <<>> ELSE <<vs>>

\* store.upsert_vectors(vectors), the backend accepting the call
UpsertVectors(vs) ==
    /\ upsert_args' = Append(upsert_args, vs)
    /\ index_calls' = index_calls \o IndexUpserts(vs)
    /\ UNCHANGED index_limit

\* A direct call of upsert_vectors, the first on the store, with the
\* records of a document
UpsertCall(vs) ==
    /\ upsert_args = <<>>
    /\ UpsertVectors(vs)
    /\ UNCHANGED <<coreVars, embedVars, populateVars, listVars, ingestVars, authVars>>

\* The records _batch_to_vectors builds for a document of n chunks
VectorsOf(d, n) ==
    ToVectors(d, BatchOf(d, n).chunks,
              [j \in 1..n |-> EmbeddingOf(BatchOf(d, n).chunks[j].text)])

\* self.index.upsert raises: the list was handed over, nothing of it is
\* recorded as taken
UpsertVectorsRaise(vs) ==
    /\ vs # <<>>
    /\ upsert_args' = Append(upsert_args, vs)
    /\ UNCHANGED <<index_limit, index_calls>>

-----------------------------------------------------------------------------
(* populate_pinecone_db *)

MaxPopulate == 102

\* user_id=DEFAULT_PINECONE_USER_ID
DEFAULT_PINECONE_USER_ID == "default"

\* str.strip() of the texts of the chunk file: whitespace only, empty, or a
\* text without surrounding whitespace
StripText(t) == IF t = " " THEN "" ELSE t

\* isinstance(chunk_text, str) and chunk_text.strip()
ValidText(t) == StripText(t) # ""

\* The positions whose text is blank, for a file of n chunks: none, all, the
\* first batch, the batches after the first, the first chunk
BlankSets(n) ==
    {{}, 1..n, 1..Min(n, batch_size), (batch_size + 1)..n, 1..Min(n, 1)}

\* A chunk file of n chunks with blank texts at the positions of blanks
ChunkFile(n, blanks) ==
    [j \in 1..n |->
        [chunk_id |-> "c" \o ToString(j),
         source |-> SourceName,
         text |-> IF j \in blanks THEN (IF j % 2 = 1 THEN " " ELSE "")
                  ELSE "t" \o ToString(j)]]

\* chunks[i:i + batch_size]
RawBatch(cs, start) == SubSeq(cs, start + 1, Min(start + batch_size, Len(cs)))

\* valid_chunks_in_batch after the filtering loop
ValidChunks(raw) == SelectSeq(raw, LAMBDA c : ValidText(c.text))

\* texts_to_embed after the filtering loop
TextsToEmbed(raw) == [j \in 1..Len(ValidChunks(raw)) |-> ValidChunks(raw)[j].text]

LogRecord(level, event, start) == [level |-> level, event |-> event, i |-> start]

\* logging.warning("Skipping invalid or empty text ..."), once per chunk
\* the filter drops
SkipWarnings(raw, start) ==
    [j \in 1..(Len(raw) - Len(ValidChunks(raw))) |->
        LogRecord("warning", "invalid_text", start)]

\* generate_embeddings: [item.embedding for item in response.data]
GenerateEmbeddings(ts) == [j \in 1..Len(ts) |-> EmbeddingsCreate(ts)[j].embedding]

\* vector_id = f"{user_id}-chunk-{chunk_id}-{i}-{j}"
VectorId(user, c, start, j) ==
    user \o "-chunk-" \o c.chunk_id \o "-" \o ToString(start) \o "-" \o ToString(j)

\* vectors_to_upsert for the valid chunks and their embeddings
VectorsToUpsert(user, valid, embs, start) ==
    [j \in 1..Len(valid) |->
        [id |-> VectorId(user, valid[j], start, j - 1),
         values |-> embs[j],
         metadata |-> [source |-> valid[j].source,
                       source_detail |-> "N/A",
                       text |-> valid[j].text]]]

PopulateIdle ==
    /\ ppc = "idle"
    /\ p_chunks = <<>>
    /\ p_i = 0
    /\ p_valid = <<>>
    /\ p_vectors = <<>>
    /\ p_embedded = <<>>
    /\ p_log = <<>>
    /\ p_surfaced = "none"

\* populate_pinecone_db up to the batch loop: chunks = json.load(f)
PopulateLoad(cs) ==
    /\ ppc = "idle"
    /\ p_chunks' = cs
    /\ p_i' = 0
    /\ p_log' = Append(p_log, LogRecord("info", "loaded", 0))
    /\ ppc' = "loop"
    /\ UNCHANGED <<p_valid, p_vectors, p_embedded, p_surfaced>>
    /\ UNCHANGED <<coreVars, embedVars, upsertVars, listVars, ingestVars, authVars>>

\* One batch with no valid text: the filter, logging.info("No valid texts
\* to embed ... Skipping."), continue
PopulateSkip ==
    /\ ppc = "loop"
    /\ InRange(p_i, Len(p_chunks), batch_size)
    /\ TextsToEmbed(RawBatch(p_chunks, p_i)) = <<>>
    /\ p_valid' = <<>>
    /\ p_log' = p_log \o SkipWarnings(RawBatch(p_chunks, p_i), p_i)
                      \o <<LogRecord("info", "no_valid_texts", p_i)>>
    /\ p_i' = p_i + batch_size
    /\ UNCHANGED <<ppc, p_chunks, p_vectors, p_embedded, p_surfaced>>
    /\ UNCHANGED <<coreVars, embedVars, upsertVars, listVars, ingestVars, authVars>>

\* One batch with valid texts: the filter, then await generate_embeddings
PopulateEmbed ==
    /\ ppc = "loop"
    /\ InRange(p_i, Len(p_chunks), batch_size)
    /\ TextsToEmbed(RawBatch(p_chunks, p_i)) # <<>>
    /\ p_valid' = ValidChunks(RawBatch(p_chunks, p_i))
    /\ p_log' = p_log \o SkipWarnings(RawBatch(p_chunks, p_i), p_i)
    /\ p_embedded' = Append(p_embedded, TextsToEmbed(RawBatch(p_chunks, p_i)))
    /\ ppc' = "embed_wait"
    /\ UNCHANGED <<p_chunks, p_i, p_vectors, p_surfaced>>
    /\ UNCHANGED <<coreVars, embedVars, upsertVars, listVars, ingestVars, authVars>>

\* generate_embeddings raises: logging.error("Skipping batch ..."), continue
PopulateEmbedFail ==
    /\ ppc = "embed_wait"
    /\ p_log' = Append(p_log, LogRecord("error", "embedding_error", p_i))
    /\ p_i' = p_i + batch_size
    /\ ppc' = "loop"
    /\ UNCHANGED <<p_chunks, p_valid, p_vectors, p_embedded, p_surfaced>>
    /\ UNCHANGED <<coreVars, embedVars, upsertVars, listVars, ingestVars, authVars>>

\* generate_embeddings returns: build vectors_to_upsert, then
\* await asyncio.to_thread(pinecone_store.upsert_vectors, vectors_to_upsert)
PopulateVectors ==
    /\ ppc = "embed_wait"
    /\ p_vectors' = VectorsToUpsert(DEFAULT_PINECONE_USER_ID, p_valid,
                                    GenerateEmbeddings(p_embedded[Len(p_embedded)]), p_i)
    /\ ppc' = "upsert_wait"
    /\ UNCHANGED <<p_chunks, p_i, p_valid, p_embedded, p_log, p_surfaced>>
    /\ UNCHANGED <<coreVars, embedVars, upsertVars, listVars, ingestVars, authVars>>

\* upsert_vectors returns: logging.info("Upserted ..."), next batch
PopulateUpserted ==
    /\ ppc = "upsert_wait"
    /\ UpsertVectors(p_vectors)
    /\ p_log' = Append(p_log, LogRecord("info", "upserted", p_i))
    /\ p_i' = p_i + batch_size
    /\ ppc' = "loop"
    /\ UNCHANGED <<p_chunks, p_valid, p_vectors, p_embedded, p_surfaced>>
    /\ UNCHANGED <<coreVars, embedVars, listVars, ingestVars, authVars>>

\* upsert_vectors raises: nothing catches it, populate_pinecone_db raises
PopulateUpsertFail ==
    /\ ppc = "upsert_wait"
    /\ UpsertVectorsRaise(p_vectors)
    /\ p_surfaced' = "PineconeException"
    /\ ppc' = "raised"
    /\ UNCHANGED <<p_chunks, p_i, p_valid, p_vectors, p_embedded, p_log>>
    /\ UNCHANGED <<coreVars, embedVars, listVars, ingestVars, authVars>>

\* The range is exhausted: logging.info("Pinecone population complete")
PopulateDone ==
    /\ ppc = "loop"
    /\ ~InRange(p_i, Len(p_chunks), batch_size)
    /\ p_log' = Append(p_log, LogRecord("info", "complete", p_i))
    /\ ppc' = "done"
    /\ UNCHANGED <<p_chunks, p_i, p_valid, p_vectors, p_embedded, p_surfaced>>
    /\ UNCHANGED <<coreVars, embedVars, upsertVars, listVars, ingestVars, authVars>>

-----------------------------------------------------------------------------
(* list_files *)

MaxPageSize == 3

\* ROOT_FOLDER
ROOT_FOLDER == "/kb"

FileEntry(path) == [kind |-> "file", path_lower |-> path]

FolderEntry(path) == [kind |-> "folder", path_lower |-> path]

\* The entries of the folders of the Dropbox, in no order
FolderEntries ==
    [f \in {"/kb", "/kb/a", "/kb/b", "/kb/a/c"} |->
        CASE f = "/kb" -> {FileEntry("/kb/f1"), FolderEntry("/kb/a"), FolderEntry("/kb/b")}
          [] f = "/kb/a" -> {FileEntry("/kb/a/f2"), FolderEntry("/kb/a/c")}
          [] f = "/kb/b" -> {FileEntry("/kb/b/f3")}
          [] f = "/kb/a/c" -> {FileEntry("/kb/a/c/f4")}]

\* The orders a listing can give the entries of a set in
Orders(S) ==
    {o \in [1..Cardinality(S) -> S] : \A j, k \in 1..Cardinality(S) : o[j] = o[k] => j = k}

\* A listing cut into pages of at most size entries; a folder without
\* entries has one empty page
Paginate(es, size) ==
    IF es = <<>> THEN <<(<<>>)>>
    ELSE [k \in 1..((Len(es) + size - 1) \div size) |->
             SubSeq(es, (k - 1) * size + 1, Min(k * size, Len(es)))]

\* The Dropbox accounts: every order of the entries of the two larger
\* folders, every page size
Dropboxes ==
    {[f \in DOMAIN FolderEntries |->
         Paginate(IF f = "/kb" THEN o1 ELSE IF f = "/kb/a" THEN o2
                  ELSE CHOOSE o \in Orders(FolderEntries[f]) : TRUE, size)] :
        o1 \in Orders(FolderEntries["/kb"]), o2 \in Orders(FolderEntries["/kb/a"]),
        size \in 1..MaxPageSize}

\* [e.path_lower for e in entries if isinstance(e, FolderMetadata)]
FoldersOf(entries) ==
    [j \in 1..Len(SelectSeq(entries, LAMBDA e : e.kind = "folder")) |->
        SelectSeq(entries, LAMBDA e : e.kind = "folder")[j].path_lower]

\* [e for e in entries if isinstance(e, FileMetadata)]
FilesOf(entries) == SelectSeq(entries, LAMBDA e : e.kind = "file")

\* result.has_more
HasMore == l_page > 0 /\ l_page < Len(dbx[l_path])

ListIdle ==
    /\ dbx = [f \in DOMAIN FolderEntries |-> <<(<<>>)>>]
    /\ lpc = "idle"
    /\ l_queue = <<>>
    /\ l_path = ROOT_FOLDER
    /\ l_page = 0
    /\ l_yielded = <<>>

\* list_files(dbx, root_folder): queue = [root_folder]
ListFiles(root) ==
    /\ lpc = "idle"
    /\ l_queue' = <<root>>
    /\ lpc' = "walk"
    /\ UNCHANGED <<dbx, l_path, l_page, l_yielded>>
    /\ UNCHANGED <<coreVars, embedVars, upsertVars, populateVars, ingestVars, authVars>>

\* while queue: path = queue.pop(); result = dbx.files_list_folder(path);
\* the first page's folders are queued, its files yielded
ListFolder ==
    /\ lpc = "walk"
    /\ ~HasMore
    /\ l_queue # <<>>
    /\ l_path' = l_queue[Len(l_queue)]
    /\ l_page' = 1
    /\ l_queue' = SubSeq(l_queue, 1, Len(l_queue) - 1) \o FoldersOf(dbx[l_path'][1])
    /\ l_yielded' = l_yielded \o FilesOf(dbx[l_path'][1])
    /\ UNCHANGED <<dbx, lpc>>
    /\ UNCHANGED <<coreVars, embedVars, upsertVars, populateVars, ingestVars, authVars>>

\* while result.has_more: result = dbx.files_list_folder_continue(cursor);
\* the page's files are yielded
ListContinue ==
    /\ lpc = "walk"
    /\ HasMore
    /\ l_page' = l_page + 1
    /\ l_yielded' = l_yielded \o FilesOf(dbx[l_path][l_page'])
    /\ UNCHANGED <<dbx, lpc, l_path, l_queue>>
    /\ UNCHANGED <<coreVars, embedVars, upsertVars, populateVars, ingestVars, authVars>>

\* The queue is empty: the generator ends
ListEnd ==
    /\ lpc = "walk"
    /\ ~HasMore
    /\ l_queue = <<>>
    /\ lpc' = "done"
    /\ UNCHANGED <<dbx, l_queue, l_path, l_page, l_yielded>>
    /\ UNCHANGED <<coreVars, embedVars, upsertVars, populateVars, ingestVars, authVars>>

-----------------------------------------------------------------------------
(* main and ingest_file *)

\* TARGETS of main
TARGETS == {"vital.pdf", "performance.pdf"}

\* ALLOWED_EXT
ALLOWED_EXT == {".pdf", ".docx", ".xlsx", ".pptx"}

\* Path(entry.name).suffix.lower() of the names of the listing
Suffix(name) == IF name = "notes.txt" THEN ".txt" ELSE ".pdf"

\* entry.name in TARGETS and Path(entry.name).suffix.lower() in ALLOWED_EXT
IsTarget(entry) == entry.name \in TARGETS /\ Suffix(entry.name) \in ALLOWED_EXT

\* The chunk counts of a file: none, one, two sub-batches, three
FileSizes == {0, 1, EMB_BATCH + 1, MaxChunks}

\* What list_files yields to main: the two targets with another file
\* between them
Listings ==
    {<<[name |-> "vital.pdf", n_chunks |-> n1],
       [name |-> "notes.txt", n_chunks |-> 1],
       [name |-> "performance.pdf", n_chunks |-> n2]>> : n1, n2 \in FileSizes}

\* doc_id = str(uuid.uuid4()) of the batch ingestor.ingest builds for a file
DocIdOf(name) == IF name = "vital.pdf" THEN "u1" ELSE "u2"

\* What the stages of ingest_file raise when they fail
StageErrors ==
    [download |-> "ApiError", parse |-> "ValueError", upsert |-> "PineconeException"]

\* A handler for the API's errors only
CaughtAPIErrors(kind) == IsAPIError(kind)

\* except Exception: the exceptions of the four stages all derive from it
Caught(kind) == kind \in {"ApiError", "ValueError", "PineconeException"} \cup EmbedErrors

\* vectors[i : i + UP_BATCH] without its last vector
UpsertSliceShort(vs, start) == SubSeq(vs, start + 1, Min(start + UP_BATCH - 1, Len(vs)))

\* vectors[i : i + UP_BATCH]
UpsertSlice(vs, start) == SubSeq(vs, start + 1, Min(start + UP_BATCH, Len(vs)))

IngestIdle ==
    /\ ipc = "idle"
    /\ m_files = <<>>
    /\ m_idx = 0
    /\ u_i = 0
    /\ i_log = <<>>
    /\ i_raised = "none"

IngestRecord(level, event, stage, at) ==
    [file |-> m_files[m_idx].name, level |-> level, event |-> event, stage |-> stage,
     at |-> at]

\* The locals of _batch_to_vectors and embed_texts are gone when
\* ingest_file is left
EmbedReset ==
    /\ epc' = "idle"
    /\ e_chunks' = <<>>
    /\ texts' = <<>>
    /\ vectors' = <<>>
    /\ e_i' = 0
    /\ embed_calls' = <<>>
    /\ records' = "none"
    /\ attempts' = 0
    /\ embed_err' = "none"

\* A stage raised kind at range value at: except Exception as err:
\* LOGGER.exception(...), and ingest_file returns to the loop of main; an
\* exception the handler does not catch leaves ingest_file and main
Failed(kind, stage, at) ==
    /\ IF Caught(kind)
       THEN /\ i_log' = Append(i_log, IngestRecord("error", "failed", stage, at))
            /\ ipc' = "loop"
            /\ UNCHANGED i_raised
       ELSE /\ i_raised' = kind
            /\ ipc' = "raised"
            /\ UNCHANGED i_log
    /\ u_i' = 0
    /\ EmbedReset
    /\ UNCHANGED <<m_files, m_idx>>

\* main: for entry in list_files(dbx, ROOT_FOLDER)
MainStart ==
    /\ ipc = "idle"
    /\ ipc' = "loop"
    /\ UNCHANGED <<m_files, m_idx, u_i, i_log, i_raised>>
    /\ UNCHANGED <<coreVars, embedVars, upsertVars, populateVars, listVars, authVars>>

\* The next entry is no target: the loop goes on
MainSkip ==
    /\ ipc = "loop"
    /\ m_idx < Len(m_files)
    /\ ~IsTarget(m_files[m_idx + 1])
    /\ m_idx' = m_idx + 1
    /\ UNCHANGED <<ipc, m_files, u_i, i_log, i_raised>>
    /\ UNCHANGED <<coreVars, embedVars, upsertVars, populateVars, listVars, authVars>>

\* The next entry is a target: ingest_file(...), LOGGER.info("Processing
\* ..."), dbx.files_download(entry.path_lower)
IngestFile ==
    /\ ipc = "loop"
    /\ m_idx < Len(m_files)
    /\ IsTarget(m_files[m_idx + 1])
    /\ m_idx' = m_idx + 1
    /\ i_log' = Append(i_log, [file |-> m_files[m_idx + 1].name, level |-> "info",
                               event |-> "processing", stage |-> "none", at |-> 0])
    /\ ipc' = "download"
    /\ UNCHANGED <<m_files, u_i, i_raised>>
    /\ UNCHANGED <<coreVars, embedVars, upsertVars, populateVars, listVars, authVars>>

\* files_download returns: batch = ingestor.ingest(resp.content, entry.name)
Downloaded ==
    /\ ipc = "download"
    /\ ipc' = "parse"
    /\ UNCHANGED <<m_files, m_idx, u_i, i_log, i_raised>>
    /\ UNCHANGED <<coreVars, embedVars, upsertVars, populateVars, listVars, authVars>>

\* files_download raises
DownloadFail ==
    /\ ipc = "download"
    /\ Failed(StageErrors.download, "download", 0)
    /\ UNCHANGED <<coreVars, upsertVars, populateVars, listVars, authVars>>

\* ingestor.ingest returns the batch: vectors = _batch_to_vectors(batch, embedder)
Parsed ==
    /\ ipc = "parse"
    /\ ipc' = "embed"
    /\ UNCHANGED <<m_files, m_idx, u_i, i_log, i_raised>>
    /\ UNCHANGED <<coreVars, embedVars, upsertVars, populateVars, listVars, authVars>>

\* ingestor.ingest raises
ParseFail ==
    /\ ipc = "parse"
    /\ Failed(StageErrors.parse, "parse", 0)
    /\ UNCHANGED <<coreVars, upsertVars, populateVars, listVars, authVars>>

\* _batch_to_vectors is entered with the batch of the file
IngestEmbed ==
    /\ ipc = "embed"
    /\ BatchToVectors(BatchOf(DocIdOf(m_files[m_idx].name), m_files[m_idx].n_chunks))

\* embed_texts raised in _batch_to_vectors, which lets it through
EmbedFail ==
    /\ ipc = "embed"
    /\ epc = "raised"
    /\ Failed(embed_err, "embed", e_i)
    /\ UNCHANGED <<coreVars, upsertVars, populateVars, listVars, authVars>>

\* _batch_to_vectors returned: for i in range(0, len(vectors), UP_BATCH)
UpsertLoop ==
    /\ ipc = "embed"
    /\ epc = "done"
    /\ u_i' = 0
    /\ ipc' = "upsert"
    /\ UNCHANGED <<m_files, m_idx, i_log, i_raised>>
    /\ UNCHANGED <<coreVars, embedVars, upsertVars, populateVars, listVars, authVars>>

\* store.upsert_vectors(vectors[i : i + UP_BATCH]) returns
Upserted ==
    /\ ipc = "upsert"
    /\ InRange(u_i, Len(records), UP_BATCH)
    /\ UpsertVectors(UpsertSlice(records, u_i))
    /\ u_i' = u_i + UP_BATCH
    /\ UNCHANGED <<ipc, m_files, m_idx, i_log, i_raised>>
    /\ UNCHANGED <<coreVars, embedVars, populateVars, listVars, authVars>>

\* store.upsert_vectors(vectors[i : i + UP_BATCH]) raises
UpsertFail ==
    /\ ipc = "upsert"
    /\ InRange(u_i, Len(records), UP_BATCH)
    /\ UpsertVectorsRaise(UpsertSlice(records, u_i))
    /\ Failed(StageErrors.upsert, "upsert", u_i)
    /\ UNCHANGED <<coreVars, populateVars, listVars, authVars>>

\* The range is exhausted: LOGGER.info("upserted %d chunks"), ingest_file
\* returns
IngestReturn ==
    /\ ipc = "upsert"
    /\ ~InRange(u_i, Len(records), UP_BATCH)
    /\ i_log' = Append(i_log, IngestRecord("info", "upserted", "none", Len(e_chunks)))
    /\ ipc' = "loop"
    /\ u_i' = 0
    /\ EmbedReset
    /\ UNCHANGED <<m_files, m_idx, i_raised>>
    /\ UNCHANGED <<coreVars, upsertVars, populateVars, listVars, authVars>>

\* The listing is exhausted: main returns
MainEnd ==
    /\ ipc = "loop"
    /\ m_idx = Len(m_files)
    /\ ipc' = "done"
    /\ UNCHANGED <<m_files, m_idx, u_i, i_log, i_raised>>
    /\ UNCHANGED <<coreVars, embedVars, upsertVars, populateVars, listVars, authVars>>

-----------------------------------------------------------------------------
(* The API: get_current_user and the endpoints *)

Endpoints == {"/answer", "/answer-stream"}

\* The Authorization header of a request: none, a bearer token the identity
\* service rejects, one it accepts
Credentials == {"missing", "invalid", "valid"}

\* No answer of the identity service: httpx.RequestError
NoAnswer == 0

\* What client.get(user_url) ends with for a token: the status of the
\* identity service's answer, or no answer
IdentityAnswers(cred) == IF cred = "valid" THEN {200, 500, NoAnswer} ELSE {401, 500, NoAnswer}

\* A check that passes whenever the identity service answered
IsAnswered(answer) == answer # NoAnswer

\* response.raise_for_status() passes
IsSuccess(answer) == answer \in 200..299

\* The HTTPException of get_current_user_real: the status of the answer, or
\* 503 for a RequestError
RejectStatus(answer) == IF answer = NoAnswer THEN 503 ELSE answer

AppIdle ==
    /\ auth_enabled = TRUE
    /\ supabase_configured = TRUE
    /\ pipeline_ready = TRUE
    /\ apc = [r \in Runs |-> "none"]
    /\ endpoint = [r \in Runs |-> "none"]
    /\ credential = [r \in Runs |-> "missing"]
    /\ current_user = [r \in Runs |-> "none"]
    /\ http_status = [r \in Runs |-> 0]

\* The request is answered with status and the handler is not run
Respond(r, status) ==
    /\ http_status' = [http_status EXCEPT ![r] = status]
    /\ apc' = [apc EXCEPT ![r] = "responded"]
    /\ UNCHANGED <<auth_enabled, supabase_configured, pipeline_ready, endpoint, credential,
                   current_user>>
    /\ UNCHANGED <<coreVars, embedVars, upsertVars, populateVars, listVars, ingestVars>>

\* A POST to an endpoint arrives; its dependencies are resolved first
Request(r, ep, cred) ==
    /\ apc[r] = "none"
    /\ apc' = [apc EXCEPT ![r] = "auth"]
    /\ endpoint' = [endpoint EXCEPT ![r] = ep]
    /\ credential' = [credential EXCEPT ![r] = cred]
    /\ UNCHANGED <<auth_enabled, supabase_configured, pipeline_ready, current_user,
                   http_status>>
    /\ UNCHANGED <<coreVars, embedVars, upsertVars, populateVars, listVars, ingestVars>>

\* get_current_user_mock, when AUTH_ENABLED is false
AuthMock(r) ==
    /\ apc[r] = "auth"
    /\ ~auth_enabled
    /\ current_user' = [current_user EXCEPT ![r] = "mock"]
    /\ apc' = [apc EXCEPT ![r] = "handler"]
    /\ UNCHANGED <<auth_enabled, supabase_configured, pipeline_ready, endpoint, credential,
                   http_status>>
    /\ UNCHANGED <<coreVars, embedVars, upsertVars, populateVars, listVars, ingestVars>>

\* Depends(http_bearer_scheme): no Authorization header, HTTPBearer answers 403
BearerReject(r) ==
    /\ apc[r] = "auth"
    /\ auth_enabled
    /\ credential[r] = "missing"
    /\ Respond(r, 403)

\* get_current_user_real: the identity service is not configured
NotConfigured(r) ==
    /\ apc[r] = "auth"
    /\ auth_enabled
    /\ credential[r] # "missing"
    /\ ~supabase_configured
    /\ Respond(r, 500)

\* get_current_user_real: await client.get(user_url, headers=headers)
AuthSend(r) ==
    /\ apc[r] = "auth"
    /\ auth_enabled
    /\ credential[r] # "missing"
    /\ supabase_configured
    /\ apc' = [apc EXCEPT ![r] = "auth_wait"]
    /\ UNCHANGED <<auth_enabled, supabase_configured, pipeline_ready, endpoint, credential,
                   current_user, http_status>>
    /\ UNCHANGED <<coreVars, embedVars, upsertVars, populateVars, listVars, ingestVars>>

\* The identity service accepted the token: return response.json()
AuthVerified(r, answer) ==
    /\ apc[r] = "auth_wait"
    /\ IsSuccess(answer)
    /\ current_user' = [current_user EXCEPT ![r] = "verified"]
    /\ apc' = [apc EXCEPT ![r] = "handler"]
    /\ UNCHANGED <<auth_enabled, supabase_configured, pipeline_ready, endpoint, credential,
                   http_status>>
    /\ UNCHANGED <<coreVars, embedVars, upsertVars, populateVars, listVars, ingestVars>>

\* HTTPStatusError or RequestError: raise HTTPException
AuthRejected(r, answer) ==
    /\ apc[r] = "auth_wait"
    /\ ~IsSuccess(answer)
    /\ Respond(r, RejectStatus(answer))

\* The handler finds no pipeline: HTTPException(503)
NoPipeline(r) ==
    /\ apc[r] = "handler"
    /\ ~pipeline_ready
    /\ Respond(r, 503)

\* The handler of either endpoint calls the pipeline with request.query
HandlerCall(r, q) ==
    /\ apc[r] = "handler"
    /\ pipeline_ready
    /\ PipelineCall(r, q)

-----------------------------------------------------------------------------
(* Specifications *)

UpsertIdle == upsert_args = <<>> /\ index_calls = <<>>

\* No ingestion run, no listing, no request
EdgeIdle ==
    /\ index_limit = IndexLimit /\ UpsertIdle
    /\ PopulateIdle
    /\ ListIdle
    /\ IngestIdle
    /\ AppIdle

\* No reranker, no synthesis, no embedding
StagesIdle ==
    /\ use_reranker = FALSE
    /\ scorer = [t \in Texts |-> 0]
    /\ RerankIdle
    /\ backend = <<>>
    /\ GenIdle
    /\ EmbedIdle
    /\ EdgeIdle

ChunkNext ==
    \/ \E c \in Configs : Construct(c[1], c[2])
    \/ /\ ing = "ready" /\ cpc = "idle"
       /\ \E ps \in PageListsFor(chunk_size), d \in DocIds : PagesToBatch(ps, d)
    \/ NextPage
    \/ EmitWindow
    \/ PageDone
    \/ ReturnBatch

\* No pipeline run, an empty store
InitChunk ==
    /\ ChunkInit /\ QueryIdle /\ index = [q \in QueryStrings |-> <<>>]
    /\ StagesIdle

SpecChunk == InitChunk /\ [][ChunkNext]_vars

\* Callers of retrieve(queries, k), interleaved at every await
RetrieveNext ==
    \/ \E r \in Runs, qs \in SeqsUpTo(Subs, MaxQueries), kq \in 1..MaxK :
           RetrieveCall(r, qs, kq)
    \/ \E r \in Runs : QueryIssue(r)
    \/ \E r \in Runs : QueryComplete(r)
    \/ \E r \in Runs : RetrieveReturn(r)

\* No ingestor, a store with some ranking for every query text
InitQuery == ChunkInit /\ QueryInit /\ StagesIdle

\* The callers of retrieve pass subqueries only: the store's rankings of the
\* other query texts are never read and are fixed to the first ranking
InitRetrieve ==
    /\ InitQuery
    /\ \A q \in UserQueries : index[q] = <<Corpus.r1, Corpus.r2, Corpus.r3>>

SpecRetrieve == InitRetrieve /\ [][RetrieveNext]_vars

\* A run of answer or answer_stream, stage by stage
PipelineNext ==
    \/ \E r \in PipelineRuns, q \in UserQueries : PipelineCall(r, q)
    \/ \E r \in PipelineRuns, resp \in ExpandResponses : ExpandResponse(r, resp)
    \/ \E r \in PipelineRuns : PipelineRetrieve(r)
    \/ \E r \in PipelineRuns : QueryIssue(r)
    \/ \E r \in PipelineRuns : QueryComplete(r)
    \/ \E r \in PipelineRuns : RetrieveReturn(r)
    \/ \E r \in PipelineRuns : Dedup(r)
    \/ \E r \in PipelineRuns : PipelineSelect(r)
    \/ \E r \in PipelineRuns : LoadDone(r)
    \/ \E r \in PipelineRuns : LoadFail(r)
    \/ \E r \in PipelineRuns : PredictDone(r)
    \/ \E r \in PipelineRuns : RerankReturn(r)
    \/ \E r \in PipelineRuns : Answer(r)
    \/ \E r \in PipelineRuns : AnswerStream(r)
    \/ \E r \in PipelineRuns : GenerateResponse(r)
    \/ \E r \in PipelineRuns : GenerateFail(r)
    \/ \E r \in PipelineRuns : StreamOpen(r)
    \/ \E r \in PipelineRuns : StreamDelta(r)
    \/ \E r \in PipelineRuns : StreamEnd(r)
    \/ \E r \in PipelineRuns : StreamFail(r)
    \/ \E r \in PipelineRuns : ConsumerStop(r)

\* A pipeline as constructed: its store, its use_reranker option, its models
InitPipeline ==
    /\ ChunkInit /\ QueryIdle /\ index \in PipelineIndexes
    /\ use_reranker \in BOOLEAN
    /\ scorer \in Scorers
    /\ RerankIdle
    /\ backend = PipelineCompletion
    /\ GenIdle
    /\ EmbedIdle
    /\ EdgeIdle

SpecPipeline == InitPipeline /\ [][PipelineNext]_vars

\* One caller of rerank(user_query, retrieved_chunks, top_n)
RerankNext ==
    \/ \E q \in UserQueries, cs \in RerankLists, n \in 0..MaxTopN :
           RerankCall(1, q, cs, n)
    \/ LoadDone(1)
    \/ LoadFail(1)
    \/ PredictDone(1)

InitRerank ==
    /\ ChunkInit /\ QueryIdle /\ index = [q \in QueryStrings |-> <<>>]
    /\ use_reranker \in BOOLEAN
    /\ scorer \in Scorers
    /\ RerankIdle
    /\ backend = <<>>
    /\ GenIdle
    /\ EmbedIdle
    /\ EdgeIdle

SpecRerank == InitRerank /\ [][RerankNext]_vars

\* Requests that reach rerank of one pipeline, interleaved at every await
SharedRerankNext ==
    \/ \E r \in Runs, q \in UserQueries, cs \in LoadLists :
           RerankCall(r, q, cs, TOP_N_FINAL_CHUNKS)
    \/ \E r \in Runs : LoadDone(r)
    \/ \E r \in Runs : LoadFail(r)
    \/ \E r \in Runs : PredictDone(r)

\* Reranking is enabled
InitSharedRerank ==
    /\ ChunkInit /\ QueryIdle /\ index = [q \in QueryStrings |-> <<>>]
    /\ use_reranker = TRUE
    /\ scorer \in Scorers
    /\ RerankIdle
    /\ backend = <<>>
    /\ GenIdle
    /\ EmbedIdle
    /\ EdgeIdle

SpecSharedRerank == InitSharedRerank /\ [][SharedRerankNext]_vars

\* Callers of generate_answer and generate_answer_stream with one backend
GenerateNext ==
    \/ \E r \in Runs, q \in UserQueries, cs \in ContextLists :
           GenerateAnswerCall(r, q, cs)
    \/ \E r \in Runs, q \in UserQueries, cs \in ContextLists :
           GenerateStreamCall(r, q, cs)
    \/ \E r \in Runs : GenerateResponse(r)
    \/ \E r \in Runs : GenerateFail(r)
    \/ \E r \in Runs : StreamOpen(r)
    \/ \E r \in Runs : StreamDelta(r)
    \/ \E r \in Runs : StreamEnd(r)
    \/ \E r \in Runs : StreamFail(r)
    \/ \E r \in Runs : ConsumerStop(r)

InitGenerate ==
    /\ ChunkInit /\ QueryIdle /\ index = [q \in QueryStrings |-> <<>>]
    /\ use_reranker = FALSE
    /\ scorer = [t \in Texts |-> 0]
    /\ RerankIdle
    /\ backend \in Completions
    /\ GenIdle
    /\ EmbedIdle
    /\ EdgeIdle

SpecGenerate == InitGenerate /\ [][GenerateNext]_vars

\* One call of _batch_to_vectors
EmbedNext ==
    \/ /\ epc = "idle"
       /\ \E d \in DocIds, n \in 0..MaxChunks : BatchToVectors(BatchOf(d, n))
    \/ EmbedCall
    \/ EmbedReturn
    \/ \E kind \in EmbedErrors : EmbedRetry(kind)
    \/ \E kind \in EmbedErrors : EmbedRaise(kind)
    \/ VectorsReturn

SpecEmbed == InitChunk /\ [][EmbedNext]_vars

\* A caller of upsert_vectors with a list of any length up to MaxUpsert
UpsertNext ==
    \E d \in DocIds, n \in 0..MaxUpsert : UpsertCall(VectorsOf(d, n))

\* A store with nothing upserted yet
InitUpsert ==
    /\ ChunkInit /\ QueryIdle /\ index = [q \in QueryStrings |-> <<>>]
    /\ use_reranker = FALSE /\ scorer = [t \in Texts |-> 0] /\ RerankIdle
    /\ backend = <<>> /\ GenIdle
    /\ EmbedIdle
    /\ index_limit = IndexLimit
    /\ UpsertIdle
    /\ PopulateIdle /\ ListIdle /\ IngestIdle /\ AppIdle

SpecUpsert == InitUpsert /\ [][UpsertNext]_vars

\* One run of populate_pinecone_db on a chunk file
PopulateNext ==
    \/ /\ ppc = "idle"
       /\ \E n \in 0..MaxPopulate : \E blanks \in BlankSets(n) :
              PopulateLoad(ChunkFile(n, blanks))
    \/ PopulateSkip
    \/ PopulateEmbed
    \/ PopulateEmbedFail
    \/ PopulateVectors
    \/ PopulateUpserted
    \/ PopulateUpsertFail
    \/ PopulateDone

SpecPopulate == InitChunk /\ [][PopulateNext]_vars

\* One traversal of list_files
ListNext ==
    \/ ListFiles(ROOT_FOLDER)
    \/ ListFolder
    \/ ListContinue
    \/ ListEnd

\* A Dropbox account, nothing listed yet
InitList ==
    /\ ChunkInit /\ QueryIdle /\ index = [q \in QueryStrings |-> <<>>]
    /\ use_reranker = FALSE /\ scorer = [t \in Texts |-> 0] /\ RerankIdle
    /\ backend = <<>> /\ GenIdle
    /\ EmbedIdle
    /\ index_limit = IndexLimit /\ UpsertIdle
    /\ PopulateIdle /\ IngestIdle /\ AppIdle
    /\ dbx \in Dropboxes
    /\ lpc = "idle"
    /\ l_queue = <<>>
    /\ l_path = ROOT_FOLDER
    /\ l_page = 0
    /\ l_yielded = <<>>

SpecList == InitList /\ [][ListNext]_vars

\* One run of main over a listing
IngestNext ==
    \/ MainStart
    \/ MainSkip
    \/ IngestFile
    \/ Downloaded
    \/ DownloadFail
    \/ Parsed
    \/ ParseFail
    \/ IngestEmbed
    \/ /\ ipc = "embed"
       /\ \/ EmbedCall
          \/ EmbedReturn
          \/ \E kind \in EmbedErrors : EmbedRetry(kind)
          \/ \E kind \in EmbedErrors : EmbedRaise(kind)
          \/ VectorsReturn
    \/ EmbedFail
    \/ UpsertLoop
    \/ Upserted
    \/ UpsertFail
    \/ IngestReturn
    \/ MainEnd

\* main before its loop, with what list_files is going to yield
InitIngest ==
    /\ ChunkInit /\ QueryIdle /\ index = [q \in QueryStrings |-> <<>>]
    /\ use_reranker = FALSE /\ scorer = [t \in Texts |-> 0] /\ RerankIdle
    /\ backend = <<>> /\ GenIdle
    /\ EmbedIdle
    /\ index_limit = IndexLimit /\ UpsertIdle
    /\ PopulateIdle /\ ListIdle /\ AppIdle
    /\ ipc = "idle"
    /\ m_files \in Listings
    /\ m_idx = 0
    /\ u_i = 0
    /\ i_log = <<>>
    /\ i_raised = "none"

SpecIngest == InitIngest /\ [][IngestNext]_vars

\* Requests to the two endpoints and the pipeline runs their handlers start
AppNext ==
    \/ \E r \in PipelineRuns, ep \in Endpoints, cred \in Credentials : Request(r, ep, cred)
    \/ \E r \in PipelineRuns : AuthMock(r)
    \/ \E r \in PipelineRuns : BearerReject(r)
    \/ \E r \in PipelineRuns : NotConfigured(r)
    \/ \E r \in PipelineRuns : AuthSend(r)
    \/ \E r \in PipelineRuns : \E answer \in IdentityAnswers(credential[r]) :
           AuthVerified(r, answer)
    \/ \E r \in PipelineRuns : \E answer \in IdentityAnswers(credential[r]) :
           AuthRejected(r, answer)
    \/ \E r \in PipelineRuns : NoPipeline(r)
    \/ \E r \in PipelineRuns, q \in UserQueries : HandlerCall(r, q)
    \/ \E r \in PipelineRuns, resp \in ExpandResponses : ExpandResponse(r, resp)
    \/ \E r \in PipelineRuns : PipelineRetrieve(r)
    \/ \E r \in PipelineRuns : QueryIssue(r)
    \/ \E r \in PipelineRuns : QueryComplete(r)
    \/ \E r \in PipelineRuns : RetrieveReturn(r)
    \/ \E r \in PipelineRuns : Dedup(r)
    \/ \E r \in PipelineRuns : PipelineSelect(r)
    \/ \E r \in PipelineRuns : endpoint[r] = "/answer" /\ Answer(r)
    \/ \E r \in PipelineRuns : endpoint[r] = "/answer-stream" /\ AnswerStream(r)
    \/ \E r \in PipelineRuns : GenerateResponse(r)
    \/ \E r \in PipelineRuns : GenerateFail(r)
    \/ \E r \in PipelineRuns : StreamOpen(r)
    \/ \E r \in PipelineRuns : StreamDelta(r)
    \/ \E r \in PipelineRuns : StreamEnd(r)
    \/ \E r \in PipelineRuns : StreamFail(r)
    \/ \E r \in PipelineRuns : ConsumerStop(r)

\* The application as started: the pipeline lifespan builds has no
\* reranker; authentication, the identity service and the pipeline are
\* configured or not
InitApp ==
    /\ ChunkInit /\ QueryIdle /\ index \in PipelineIndexes
    /\ use_reranker = FALSE
    /\ scorer = [t \in Texts |-> 0]
    /\ RerankIdle
    /\ backend = PipelineCompletion
    /\ GenIdle
    /\ EmbedIdle
    /\ index_limit = IndexLimit /\ UpsertIdle
    /\ PopulateIdle /\ ListIdle /\ IngestIdle
    /\ auth_enabled \in BOOLEAN
    /\ supabase_configured \in BOOLEAN
    /\ pipeline_ready \in BOOLEAN
    /\ apc = [r \in Runs |-> "none"]
    /\ endpoint = [r \in Runs |-> "none"]
    /\ credential = [r \in Runs |-> "missing"]
    /\ current_user = [r \in Runs |-> "none"]
    /\ http_status = [r \in Runs |-> 0]

SpecApp == InitApp /\ [][AppNext]_vars

-----------------------------------------------------------------------------
(* Properties of the chunker *)

\* 0 <= O < W
ValidConfig == ing = "ready" /\ 0 <= overlap /\ overlap < chunk_size

\* The page a chunk was cut from, read from its location label
PageOf(c) ==
    IF c.location = "full" THEN 1
    ELSE CHOOSE p \in 1..Len(pages) : c.location = "page " \o ToString(p)

ChunksOfPage(p) == SelectSeq(chunks, LAMBDA c : PageOf(c) = p)

\* The window loop of page p has run to its end
PageFinished(p) == cpc = "done" \/ p < p_idx \/ (p = p_idx /\ cpc = "pages")

StartsOf(cs) == [j \in 1..Len(cs) |-> cs[j].start_token]

\* C1: an ingestor with overlap >= chunk_size is rejected at construction:
\* no DocumentIngestor exists whose overlap is not below its window size.
C1_RejectedAtConstruction == ing = "ready" => overlap < chunk_size

\* C2 (state part): under a valid configuration chunking never raises; the
\* windows of a page start at 0, (W-O), 2(W-O), ... in this order, all below
\* the page's length n; once the page is finished every multiple of (W-O)
\* below n is a start and every token index lies in some window; the
\* 1200-token page with W=500, O=75 ends with the starts 0, 425, 850.
C2_Starts ==
    ValidConfig =>
        /\ cpc # "raised"
        /\ \A p \in 1..Len(pages) :
            LET cs == ChunksOfPage(p)
                n == Len(pages[p])
            IN  /\ \A j \in 1..Len(cs) :
                       /\ cs[j].start_token = (j - 1) * (chunk_size - overlap)
                       /\ cs[j].start_token < n
                /\ PageFinished(p) =>
                       /\ \A s \in 0..(n - 1) :
                              s % (chunk_size - overlap) = 0 =>
                                  \E j \in 1..Len(cs) : cs[j].start_token = s
                       /\ \A t \in 0..(n - 1) :
                              \E j \in 1..Len(cs) :
                                  /\ cs[j].start_token <= t
                                  /\ t < cs[j].start_token + Len(cs[j].text)
        /\ (cpc = "done" /\ pages = ScenarioPages /\ chunk_size = 500 /\ overlap = 75)
               => StartsOf(batch.chunks) = <<0, 425, 850>>

\* C2 (termination): while chunking under a valid configuration some step is
\* enabled, and every step decreases the measure (pages left, position in the
\* page, tokens left of the page), taken in lexicographic order.
C2_NotStuck == (ValidConfig /\ cpc \in {"pages", "windows"}) => ENABLED ChunkStep

Measure ==
    << IF cpc = "done" THEN -1 ELSE Len(pages) - p_idx,
       IF cpc = "windows" THEN 1 ELSE 0,
       IF cpc = "windows" /\ i < Len(tokens) THEN Len(tokens) - i ELSE 0 >>

LexLess(a, b) ==
    \/ a[1] < b[1]
    \/ a[1] = b[1] /\ a[2] < b[2]
    \/ a[1] = b[1] /\ a[2] = b[2] /\ a[3] < b[3]

C2_Progress ==
    (ValidConfig /\ cpc \in {"pages", "windows"}) =>
        /\ cpc' \in {"pages", "windows", "done"}
        /\ LexLess(Measure', Measure)

\* C2: for every valid configuration and every page, chunking terminates and
\* emits windows starting exactly at 0, (W-O), 2(W-O), ... below n, covering
\* every token; 1200 tokens with W=500, O=75 give the starts 0, 425, 850.
C2_Chunking == [](C2_Starts /\ C2_NotStuck) /\ [][C2_Progress]_vars

\* the 1200-token scenario has been chunked with the default configuration
C2_Witness ==
    /\ cpc = "done"
    /\ pages = ScenarioPages
    /\ chunk_size = 500 /\ overlap = 75
    /\ Len(batch.chunks) = 3

\* The number of token positions two windows of a page share
Shared(a, b) ==
    LET lo == IF a.start_token > b.start_token THEN a.start_token ELSE b.start_token
        hi == Min(a.start_token + Len(a.text), b.start_token + Len(b.text))
    IN  IF hi > lo THEN hi - lo ELSE 0

\* C3: under a valid configuration consecutive windows of a page share
\* exactly O tokens and every window but the page's last has exactly W tokens.
C3_ExactOverlap ==
    (ValidConfig /\ cpc = "done") =>
        \A p \in 1..Len(pages) :
            LET cs == ChunksOfPage(p)
            IN  \A j \in 1..(Len(cs) - 1) :
                    /\ Len(cs[j].text) = chunk_size
                    /\ Shared(cs[j], cs[j + 1]) = overlap

\* C4: no two chunks of a batch have the same id, while it is built and
\* in the DocumentBatch returned.
C4_UniqueIds ==
    /\ \A a, b \in 1..Len(chunks) : a # b => chunks[a].id # chunks[b].id
    /\ cpc = "done" =>
           /\ batch.chunks = chunks
           /\ \A c \in 1..Len(chunks) : chunks[c].id = batch.chunks[c].id

\* a returned batch with windows at the same offset of two pages, and more
\* than one window in a page
C4_Witness ==
    /\ cpc = "done"
    /\ \E a, b \in 1..Len(batch.chunks) :
           /\ a # b
           /\ batch.chunks[a].start_token = batch.chunks[b].start_token
    /\ \E a \in 1..Len(batch.chunks) : batch.chunks[a].start_token > 0

\* C5: under a valid configuration every chunk's text is non-empty after
\* trimming and its start offset is >= 0; in the returned batch a page
\* without tokens has no chunk and every other page has some.
C5_NonEmptyText ==
    ValidConfig =>
        /\ \A c \in 1..Len(chunks) :
               /\ Strip(chunks[c].text) # <<>>
               /\ chunks[c].start_token >= 0
        /\ cpc = "done" =>
               \A p \in 1..Len(pages) :
                   (pages[p] = <<>>) <=> (ChunksOfPage(p) = <<>>)

-----------------------------------------------------------------------------
(* Properties of the query-time pipeline *)

\* expand_query of run r has ended, by return or by raise
ExpandEnded(r) == qpc[r] \notin {"idle", "expand_wait"}

EmptyList == [type |-> "list", items |-> <<>>]

\* The responses the fallback is promised for: an upstream error (a missing
\* content included), a body that does not parse, an empty list
NeedsFallback(resp) ==
    \/ resp.kind \in {"api_error", "no_content"}
    \/ /\ resp.kind = "content"
       /\ \/ resp.body.form = "garbage"
          \/ resp.body.form = "json" /\ resp.body.value = EmptyList

\* C6: expand_query never raises; on an upstream error (a response without
\* content included), a parse failure or an empty result it returns
\* [user_query], and the run goes on.
C6_NeverRaises ==
    \A r \in PipelineRuns :
        ExpandEnded(r) =>
            /\ subqueries[r] # NoValue
            /\ ~(qpc[r] = "raised" /\ qerr[r] = "AttributeError")
            /\ NeedsFallback(expand_resp[r]) =>
                   subqueries[r] = ListOf(user_query[r])

\* The bodies C7 calls malformed or empty: no JSON, JSON that is no list, an
\* empty list
MalformedOrEmpty(body) ==
    \/ body.form = "garbage"
    \/ body.form = "json" /\ body.value.type # "list"
    \/ body.form = "json" /\ body.value = EmptyList

\* C7: for every response with a body (a list of strings, an empty list,
\* JSON that is no list, an unparseable body) expand_query returns a
\* non-empty list, which contains the user query when the body is malformed
\* or empty.
C7_NonEmptyList ==
    \A r \in PipelineRuns :
        (ExpandEnded(r) /\ expand_resp[r].kind = "content") =>
            /\ subqueries[r].type = "list"
            /\ subqueries[r].items # <<>>
            /\ MalformedOrEmpty(expand_resp[r].body) =>
                   \E j \in 1..Len(subqueries[r].items) :
                       subqueries[r].items[j] = user_query[r]

\* The number of queries of run r whose answer the loop has appended
Finished(r) == SubSeq(queries[r], 1, qi[r])

Occurrences(qs, v) == Cardinality({j \in 1..Len(qs) : qs[j] = v})

\* What the store ranks for q, cut to the k best
TopRanked(q, kq) == SubSeq(index[q], 1, Min(kq, Len(index[q])))

RECURSIVE SumTop(_, _)
SumTop(qs, kq) ==
    IF qs = <<>> THEN 0 ELSE Len(TopRanked(Head(qs), kq)) + SumTop(Tail(qs), kq)

\* C8: retrieve sends the store exactly one query per subquery; every item
\* of its list is tagged with a subquery whose answer holds the item's text
\* and metadata; a subquery contributes at most k items per occurrence in
\* the input; every answered record is in the list, also when its text is
\* there under another subquery (the list is as long as the answers together).
C8_PerSubquery ==
    \A r \in Runs :
        LET rc == retrieved_chunks[r]
            kq == n_results[r]
        IN  /\ issued[r] = SubSeq(queries[r], 1,
                                  IF qpc[r] = "query_wait" THEN qi[r] + 1 ELSE qi[r])
            /\ qpc[r] = "retrieved" => issued[r] = queries[r]
            /\ \A j \in 1..Len(rc) :
                   /\ Occurrences(Finished(r), rc[j].query) > 0
                   /\ \E p \in 1..Len(TopRanked(rc[j].query, kq)) :
                          /\ index[rc[j].query][p].text = rc[j].text
                          /\ index[rc[j].query][p].metadata = rc[j].metadata
            /\ \A s \in QueryStrings :
                   Cardinality({j \in 1..Len(rc) : rc[j].query = s})
                       <= kq * Occurrences(Finished(r), s)
            /\ \A j \in 1..qi[r] :
                   \A p \in 1..Len(TopRanked(queries[r][j], kq)) :
                       \E c \in 1..Len(rc) :
                           /\ rc[c].query = queries[r][j]
                           /\ rc[c].text = index[queries[r][j]][p].text
                           /\ rc[c].metadata = index[queries[r][j]][p].metadata
            /\ Len(rc) = SumTop(Finished(r), kq)

\* retrieve has returned for two different subqueries, k cut an answer short,
\* and one text is in the list under both subqueries
C8_Witness ==
    \E r \in Runs :
        /\ qpc[r] = "retrieved"
        /\ Len(queries[r]) = 2
        /\ queries[r][1] # queries[r][2]
        /\ \E j \in 1..2 : Len(index[queries[r][j]]) > n_results[r]
        /\ \E a, b \in 1..Len(retrieved_chunks[r]) :
               /\ retrieved_chunks[r][a].text = retrieved_chunks[r][b].text
               /\ retrieved_chunks[r][a].query # retrieved_chunks[r][b].query

\* The list C9 expects: subquery by subquery in input order, each with the
\* store's k best in rank order
RECURSIVE Grouped(_, _)
Grouped(qs, kq) ==
    IF qs = <<>> THEN <<>>
    ELSE [p \in 1..Len(TopRanked(Head(qs), kq)) |->
              [text |-> index[Head(qs)][p].text,
               metadata |-> index[Head(qs)][p].metadata,
               query |-> Head(qs)]]
         \o Grouped(Tail(qs), kq)

\* C9: at every point of every interleaving of the runs, a run's list is
\* grouped by subquery in input order and, within a subquery, in the rank
\* order of the store.
C9_InputOrder ==
    \A r \in Runs : retrieved_chunks[r] = Grouped(Finished(r), n_results[r])

\* a run has returned the list of two subqueries that the store ranks
\* differently, while another run, one answer in, awaits its next answer
C9_Witness ==
    \E r, o \in Runs :
        /\ r # o
        /\ qpc[r] = "retrieved"
        /\ Len(queries[r]) = 2
        /\ index[queries[r][1]] # index[queries[r][2]]
        /\ qpc[o] = "query_wait"
        /\ qi[o] = 1

\* The first item of cs for each text, in the order of the first occurrences
RECURSIVE FirstOccurrences(_, _)
FirstOccurrences(acc, cs) ==
    IF cs = <<>> THEN acc
    ELSE FirstOccurrences(IF HasText(acc, Head(cs).text) THEN acc
                          ELSE Append(acc, Head(cs)),
                          Tail(cs))

\* C10: deduplication keeps, for each distinct text, the first item of the
\* retrieval list with that text (its metadata and subquery tag), in the
\* order of the first occurrences.
C10_KeepsFirst ==
    \A r \in PipelineRuns :
        qpc[r] = "deduped" =>
            unique_chunks[r] = FirstOccurrences(<<>>, retrieved_chunks[r])

\* C11: deduplication is idempotent (applied to its own output it returns
\* the same items in the same order) and its output never has two items with
\* the same text.
C11_Idempotent ==
    \A r \in PipelineRuns :
        LET u == unique_chunks[r]
        IN  /\ DedupByText(u) = u
            /\ \A a, b \in 1..Len(u) : a # b => u[a].text # u[b].text

\* deduplication has dropped an item and kept more than one
C11_Witness ==
    \E r \in PipelineRuns :
        /\ qpc[r] = "deduped"
        /\ Len(unique_chunks[r]) > 1
        /\ Len(unique_chunks[r]) < Len(retrieved_chunks[r])

-----------------------------------------------------------------------------
(* Properties of the reranker *)

\* C12: loading is single-flight: of the requests that reach rerank while
\* no model is held, one loads it and the others wait for that load, so no
\* two loads are ever in progress together and no two requests score with
\* the results of different loads.
C12_SingleFlight ==
    \A r, o \in Runs :
        r # o =>
            /\ ~(qpc[r] = "load_wait" /\ qpc[o] = "load_wait")
            /\ (scored_with[r] # NoEncoder /\ scored_with[o] # NoEncoder) =>
                   scored_with[r] = scored_with[o]

\* C13: a failed load is terminal: once a load has failed the reranker is
\* unusable, that is the pipeline holds no model and no request scores, and
\* every request that waited for a load has got the failure.
C13_FailureTerminal ==
    load_failures > 0 =>
        /\ cross_encoder = NoEncoder
        /\ \A r \in Runs :
               /\ scored_with[r] = NoEncoder
               /\ load_id[r] # 0 => (qpc[r] = "raised" /\ qerr[r] = "LoadError")

\* C14: rerank returns min(top_n, len(chunks)) chunks, each from its own
\* place of the input, in non-increasing order of score, chunks of equal
\* score in their order of the input.
C14_Rerank ==
    qpc[1] = "reranked" =>
        LET in == rerank_arg[1]
            out == final_chunks[1]
            sc == IF in = <<>> THEN <<>> ELSE scores[1]
        IN  /\ Len(out) = Min(top_n[1], Len(in))
            /\ Len(sc) = Len(in)
            /\ \E pos \in [1..Len(out) -> 1..Len(in)] :
                   /\ \A j \in 1..Len(out) : out[j] = in[pos[j]]
                   /\ \A j, k \in 1..Len(out) :
                          j < k =>
                              /\ pos[j] # pos[k]
                              /\ sc[pos[j]] >= sc[pos[k]]
                              /\ sc[pos[j]] = sc[pos[k]] => pos[j] < pos[k]

\* rerank has cut a list of three to two chunks of equal score and different
\* metadata, and moved a chunk to the front
C14_Witness ==
    /\ qpc[1] = "reranked"
    /\ Len(rerank_arg[1]) = 3
    /\ Len(final_chunks[1]) = 2
    /\ final_chunks[1][1] # rerank_arg[1][1]
    /\ final_chunks[1][1].text = final_chunks[1][2].text
    /\ final_chunks[1][1].metadata # final_chunks[1][2].metadata

\* The run has handed its chunks to answer synthesis
Synthesis(r) == mode[r] # "none"

\* C15: with the reranker disabled the chunks handed to answer synthesis
\* are the first min(6, n) of the n deduplicated chunks, in their order, and
\* at no point of the run is the model loaded or asked for a score.
C15_FirstN ==
    use_reranker = FALSE =>
        /\ loads = 0
        /\ cross_encoder = NoEncoder
        /\ \A r \in PipelineRuns :
               /\ qpc[r] \notin {"load_wait", "predict_wait", "reranked"}
               /\ scored_with[r] = NoEncoder
               /\ scores[r] = <<>>
               /\ Synthesis(r) =>
                      LET u == unique_chunks[r]
                          ctx == gen_request[r].user.context
                      IN  /\ Len(final_chunks[r]) = Min(6, Len(u))
                          /\ \A j \in 1..Len(final_chunks[r]) : final_chunks[r][j] = u[j]
                          /\ Len(ctx) = Len(final_chunks[r])
                          /\ \A j \in 1..Len(ctx) : ctx[j].text = u[j].text

\* without reranker, synthesis got six of seven deduplicated chunks
C15_Witness ==
    /\ use_reranker = FALSE
    /\ \E r \in PipelineRuns :
           /\ Synthesis(r)
           /\ Len(unique_chunks[r]) = 7
           /\ Len(final_chunks[r]) = 6

-----------------------------------------------------------------------------
(* Properties of answer synthesis *)

\* C16: for the same user query, the same context chunks and the same
\* backend text, the increments generate_answer_stream yields, concatenated,
\* are the string generate_answer returns, also when the text begins or ends
\* with whitespace.
C16_SameText ==
    \A r, o \in Runs :
        (/\ qpc[r] = "answered"
         /\ qpc[o] = "stream_done"
         /\ user_query[r] = user_query[o]
         /\ final_chunks[r] = final_chunks[o])
            => Concat(yielded[o]) = result[r]

\* What the stages before synthesis give for the run's query and the
\* responses of its collaborators
ExpectedSubqueries(r) == ExpandOutcome(user_query[r], expand_resp[r]).value

ExpectedUnique(r) ==
    DedupByText(Grouped(ExpectedSubqueries(r).items, RetrieveDefaultK))

ExpectedFinal(r) ==
    LET u == ExpectedUnique(r)
    IN  IF use_reranker
        THEN Reranked(u, [j \in 1..Len(u) |-> scorer[u[j].text]], TOP_N_FINAL_CHUNKS)
        ELSE SubSeq(u, 1, Min(TOP_N_FINAL_CHUNKS, Len(u)))

\* C17: answer and answer_stream run the same stages in the same order:
\* when either reaches synthesis, the query was expanded, each subquery was
\* sent to the store in order, the answers were deduplicated and then
\* reranked or cut; the context chunks, the system prompt and the user
\* prompt handed to the model are the same function of the query and the
\* collaborators' responses in both, and only the stream flag differs.
C17_SameRequest ==
    \A r \in PipelineRuns :
        Synthesis(r) =>
            /\ subqueries[r] = ExpectedSubqueries(r)
            /\ issued[r] = subqueries[r].items
            /\ unique_chunks[r] = ExpectedUnique(r)
            /\ final_chunks[r] = ExpectedFinal(r)
            /\ gen_request[r].model = "gpt-4o"
            /\ gen_request[r].system = SystemPrompt
            /\ gen_request[r].user = UserPrompt(user_query[r], ExpectedFinal(r))
            /\ gen_request[r].stream = (mode[r] = "answer_stream")

\* answer_stream has sent the model a context the reranker has reordered
C17_Witness ==
    \E r \in PipelineRuns :
        /\ mode[r] = "answer_stream"
        /\ use_reranker
        /\ Len(final_chunks[r]) > 1
        /\ final_chunks[r][1] # unique_chunks[r][1]
        /\ gen_request[r].user.context[1].text = final_chunks[r][1].text

\* C19: a stage that fails ends the run with an exception for the caller:
\* answer has returned no string then; a string answer returns is the
\* model's whole text; a stream that ends without exception has delivered
\* the model's whole text, and one that fails after some increments ends
\* with the exception.
C19_ExplicitError ==
    \A r \in PipelineRuns :
        /\ (qerr[r] # "none") <=> (qpc[r] = "raised")
        /\ qpc[r] = "raised" => result[r] = "none"
        /\ result[r] # "none" =>
               /\ qpc[r] = "answered"
               /\ result[r] = Strip(Concat(backend))
        /\ qpc[r] = "stream_done" => Concat(yielded[r]) = Concat(backend)
        /\ (mode[r] = "answer_stream" /\ Concat(yielded[r]) # Concat(backend)) =>
               qpc[r] \in {"stream_wait", "streaming", "cancelled", "raised"}

\* the model stream failed after an increment, with text still to come
C19_Witness ==
    \E r \in PipelineRuns :
        /\ qpc[r] = "raised"
        /\ qerr[r] = "APIError"
        /\ mode[r] = "answer_stream"
        /\ yielded[r] # <<>>
        /\ pending[r] # <<>>

-----------------------------------------------------------------------------
(* Properties of the embedding of a batch *)

\* C20: _batch_to_vectors returns one record per chunk of the batch, in the
\* chunks' order, the i-th with the id, the text and the embedding of the
\* i-th chunk, however many sub-batches of EMB_BATCH texts the batch takes;
\* the sub-batches are the texts in order, none dropped, none twice.
C20_OneVectorPerChunk ==
    /\ Concat(embed_calls) = SubSeq(texts, 1, Min(Len(texts),
                                 IF epc \in {"embed_wait", "raised"} THEN e_i + EMB_BATCH ELSE e_i))
    /\ \A c \in 1..Len(embed_calls) :
           /\ Len(embed_calls[c]) <= EMB_BATCH
           /\ embed_calls[c] # <<>>
    /\ epc = "done" =>
           /\ Len(records) = Len(e_chunks)
           /\ \A j \in 1..Len(e_chunks) :
                  /\ records[j].id = e_chunks[j].id
                  /\ records[j].metadata.text = e_chunks[j].text
                  /\ records[j].values = EmbeddingOf(e_chunks[j].text)

\* a batch that took three sub-batches, the last one short, has been returned
C20_Witness ==
    /\ epc = "done"
    /\ Len(embed_calls) = 3
    /\ Len(embed_calls[3]) < EMB_BATCH
    /\ Len(records) > 2 * EMB_BATCH

\* C21: embed_texts retries only after a transient failure (rate limiting,
\* a server error): an attempt beyond the first follows a failure of that
\* kind; a call makes at most 5 attempts, and when it has raised, the
\* exception is one it does not retry or the 5th attempt's.
C21_TransientOnly ==
    /\ attempts <= MAX_TRIES
    /\ (epc = "embed_wait" /\ attempts > 1) => embed_err \in TransientErrors
    /\ epc = "raised" => (embed_err \notin TransientErrors \/ attempts = MAX_TRIES)

\* C22: upsert_vectors re-batches internally: every call made to the
\* backend carries at most the backend's batch size limit, every vector of
\* every list passed in reaches the backend exactly once and in order, and
\* an empty list causes no backend call.
C22_Rebatched ==
    /\ \A k \in 1..Len(index_calls) :
           index_calls[k] # <<>> /\ Len(index_calls[k]) <= index_limit
    /\ Concat(index_calls) = Concat(upsert_args)

\* The batches the loop has gone through that hold no chunk with text
BlankBatches ==
    {b \in 0..(Len(p_chunks) \div batch_size) :
        /\ b * batch_size < Len(p_chunks)
        /\ b * batch_size < p_i
        /\ TextsToEmbed(RawBatch(p_chunks, b * batch_size)) = <<>>}

\* C23: when a batch holds no chunk with non-empty text, an empty-input
\* error is surfaced to the caller of the ingestion and only that batch is
\* aborted: nothing of it is embedded or upserted, and the following
\* batches are still processed.
C23_EmptyInputSurfaced ==
    (ppc = "done" /\ BlankBatches # {}) =>
        /\ \/ p_surfaced = "EmptyInputError"
           \/ \E k \in 1..Len(p_log) :
                  p_log[k].level = "error" /\ p_log[k].event = "no_valid_texts"
        /\ \A k \in 1..Len(p_embedded) : \A j \in 1..Len(p_embedded[k]) :
               ValidText(p_embedded[k][j])
        /\ p_i >= Len(p_chunks)

\* Every file of the Dropbox: all its folders are below the root
AllFiles ==
    {e \in UNION {FolderEntries[f] : f \in DOMAIN FolderEntries} : e.kind = "file"}

\* C26: list_files terminates having yielded every file under root_folder,
\* at any depth, exactly once, also when a listing is paginated and
\* sub-folders come on continuation pages.
C26_EveryFileOnce ==
    lpc = "done" =>
        /\ \A f \in AllFiles : Cardinality({k \in 1..Len(l_yielded) : l_yielded[k] = f}) = 1
        /\ \A k \in 1..Len(l_yielded) : l_yielded[k] \in AllFiles

\* C24: with authentication enabled, no stage of the pipeline is started
\* for a request unless its credential was verified first; a request with a
\* missing or invalid credential is rejected without the pipeline being
\* invoked; the pipeline itself checks no credential, so a run is started
\* by the handler only.
C24_VerifiedFirst ==
    \A r \in Runs :
        /\ (auth_enabled /\ qpc[r] # "idle") =>
               /\ credential[r] = "valid"
               /\ current_user[r] = "verified"
               /\ apc[r] = "handler"
        /\ (auth_enabled /\ credential[r] # "valid" /\ apc[r] = "responded") =>
               /\ http_status[r] \in 400..599
               /\ qpc[r] = "idle"
               /\ issued[r] = <<>>
               /\ gen_request[r] = NoRequest

C24_Witness ==
    /\ auth_enabled
    /\ credential[1] = "valid"
    /\ current_user[1] = "verified"
    /\ qpc[1] \in {"answered", "stream_done"}

\* A run enters rerank with a non-empty list in this step
EntersRerank(r) == qpc[r] = "idle" /\ qpc'[r] # "idle" /\ rerank_arg'[r] # <<>>

\* C25: the reranker model is loaded lazily and at most once: constructing
\* the pipeline loads nothing and neither does rerank of an empty list; the
\* first rerank of a non-empty list, with reranking enabled, starts the
\* load; once a load has succeeded the model is kept and no later call of
\* rerank starts another.
C25_LazyOnce ==
    /\ []((\A r \in Runs : qpc[r] = "idle") => (loads = 0 /\ cross_encoder = NoEncoder))
    /\ [](\A r \in Runs : (qpc[r] # "idle" /\ rerank_arg[r] = <<>>) => load_id[r] = 0)
    /\ [][/\ loads' # loads =>
                /\ loads' = loads + 1
                /\ cross_encoder = NoEncoder
                /\ \E r \in Runs : EntersRerank(r) /\ load_id'[r] = loads'
          /\ \A r \in Runs :
                 (EntersRerank(r) /\ use_reranker /\ cross_encoder = NoEncoder) =>
                     (qpc'[r] = "load_wait" /\ loads' = loads + 1)
          /\ cross_encoder # NoEncoder =>
                 (loads' = loads /\ cross_encoder' # NoEncoder)]_vars

C25_Witness ==
    /\ \A r \in Runs : qpc[r] = "reranked" /\ rerank_arg[r] # <<>>
    /\ loads = 1
    /\ cross_encoder = 1
    /\ load_id[1] = 1 /\ load_id[2] = 0
    /\ scored_with[2] = 1

-----------------------------------------------------------------------------
(* Properties of main and ingest_file *)

\* The records of an event that LOGGER holds for the k-th entry of the listing
RecordsOf(k, event) ==
    SelectSeq(i_log, LAMBDA rec : rec.file = m_files[k].name /\ rec.event = event)

\* ingest_file was called for the k-th entry and has returned
Returned(k) ==
    /\ IsTarget(m_files[k])
    /\ k < m_idx \/ (k = m_idx /\ ipc \in {"loop", "done"})

\* C27: ingest_file never raises: a failure of the download, the parsing,
\* the embedding or the upsert of a file is caught and logged, and the loop
\* of main goes on to every remaining target file.
C27_NeverRaises ==
    /\ i_raised = "none"
    /\ ipc # "raised"
    /\ \A k \in 1..Len(m_files) :
           Returned(k) =>
               /\ Len(RecordsOf(k, "processing")) = 1
               /\ Len(RecordsOf(k, "failed")) + Len(RecordsOf(k, "upserted")) = 1
               /\ \A j \in 1..Len(RecordsOf(k, "failed")) :
                      RecordsOf(k, "failed")[j].level = "error"
    /\ ipc = "done" =>
           /\ m_idx = Len(m_files)
           /\ \A k \in 1..Len(m_files) : IsTarget(m_files[k]) => Returned(k)

C27_Witness ==
    /\ ipc = "done"
    /\ \E k \in 1..Len(i_log) :
           /\ i_log[k].file = "vital.pdf"
           /\ i_log[k].event = "failed"
           /\ i_log[k].stage = "download"
    /\ \E k \in 1..Len(i_log) :
           /\ i_log[k].file = "performance.pdf"
           /\ i_log[k].event = "upserted"
           /\ i_log[k].at > UP_BATCH

\* The vectors of a document that the backend has taken, in order
StoredOf(d) == SelectSeq(Concat(index_calls), LAMBDA v : v.metadata.doc_id = d)

\* The first n of the vectors of the k-th entry of the listing
FirstVectors(k, n) ==
    SubSeq(VectorsOf(DocIdOf(m_files[k].name), m_files[k].n_chunks), 1,
           Min(n, m_files[k].n_chunks))

\* C28: in ingest_file the first upsert comes only after every embedding
\* sub-batch of the file has succeeded: while a file is downloaded, parsed
\* and embedded, and after its embedding has failed, the index holds no
\* vector of it; a failed upsert leaves the batches upserted before it in
\* the index, and a file that went through is in the index whole.
C28_UpsertAfterEmbedding ==
    \A k \in 1..Len(m_files) :
        LET stored == StoredOf(DocIdOf(m_files[k].name))
            failed == RecordsOf(k, "failed")
        IN  IsTarget(m_files[k]) =>
                /\ k > m_idx => stored = <<>>
                /\ (k = m_idx /\ ipc \in {"download", "parse", "embed"}) => stored = <<>>
                /\ (k = m_idx /\ ipc = "upsert") =>
                       /\ epc = "done"
                       /\ Len(records) = m_files[k].n_chunks
                       /\ stored = FirstVectors(k, u_i)
                /\ (Returned(k) /\ failed # <<>>) =>
                       stored = IF failed[1].stage = "upsert"
                                THEN FirstVectors(k, failed[1].at)
                                ELSE <<>>
                /\ (Returned(k) /\ failed = <<>>) => stored = FirstVectors(k, m_files[k].n_chunks)

C28_Witness ==
    /\ ipc = "done"
    /\ \E k \in 1..Len(i_log) :
           /\ i_log[k].file = "vital.pdf"
           /\ i_log[k].event = "failed"
           /\ i_log[k].stage = "embed"
           /\ i_log[k].at = EMB_BATCH
    /\ StoredOf("u1") = <<>>
    /\ \E k \in 1..Len(i_log) :
           /\ i_log[k].file = "performance.pdf"
           /\ i_log[k].event = "failed"
           /\ i_log[k].stage = "upsert"
           /\ i_log[k].at = UP_BATCH
    /\ Len(StoredOf("u2")) = UP_BATCH

====
